---- MODULE Spec2Model ----
(***************************************************************************)
(* A model of MiniJSON: the Value tree, the recursive-descent Parser and   *)
(* the Generator, driven the way the repository's round-trip tester and    *)
(* its example programs drive them.                                        *)
(*                                                                         *)
(* Texts are sequences of bytes (integers 0..255).  The machine integers   *)
(* and the floating-point format are modelled at a reduced width so that   *)
(* every value fits the model checker's integers: uint64_t/int64_t are     *)
(* IntBits wide and a double has DBL_MANT_DIG mantissa bits and a quantum  *)
(* of 2^-FracBits.  The relations the code relies on are kept:             *)
(*   DBL_MANT_DIG < IntBits - 1   (a double cannot hold every integer),    *)
(*   10^DBL_DECIMAL_DIG < 2^(IntBits-1)  (as 10^17 < 2^63),                *)
(*   DBL_DECIMAL_DIG digits identify a normal double.                      *)
(***************************************************************************)
EXTENDS Integers, Sequences, FiniteSets, TLC

VARIABLES json, doc, docKind, o, parser, cmp, libc

vars == <<json, doc, docKind, o, parser, cmp, libc>>

(***************************************************************************)
(* Characters                                                              *)
(***************************************************************************)
Ch == [ tab |-> 9, lf |-> 10, cr |-> 13, space |-> 32, quote |-> 34,
        plus |-> 43, comma |-> 44, minus |-> 45, dot |-> 46, slash |-> 47,
        d0 |-> 48, d1 |-> 49, d9 |-> 57, colon |-> 58,
        A |-> 65, E |-> 69, F |-> 70,
        lbracket |-> 91, backslash |-> 92, rbracket |-> 93,
        a |-> 97, b |-> 98, e |-> 101, f |-> 102, l |-> 108, n |-> 110,
        r |-> 114, s |-> 115, t |-> 116, u |-> 117, x |-> 120,
        lbrace |-> 123, rbrace |-> 125 ]

IsDigit(c) == c >= Ch.d0 /\ c <= Ch.d9

RECURSIVE Pow(_, _)
Pow(b, k) == IF k = 0 THEN 1 ELSE b * Pow(b, k - 1)

\* evaluates x once and hands it to F (what a local variable does in the code)
With(x, F(_)) == F(x)

RECURSIVE Spaces(_)
Spaces(k) == IF k = 0 THEN <<>> ELSE <<Ch.space>> \o Spaces(k - 1)

(***************************************************************************)
(* Machine numbers                                                         *)
(***************************************************************************)
IntBits == 11
DBL_MANT_DIG == 4
FracBits == 4
MaxExpBits == 9

UINT64_MAX == Pow(2, IntBits) - 1
INT64_MAX == Pow(2, IntBits - 1) - 1
INT64_MIN == 0 - Pow(2, IntBits - 1)

\* A finite double is (-1)^neg * q / 2^FracBits; q has at most DBL_MANT_DIG
\* significant bits.  cls is "fin", "inf" or "nan".
Quantum == Pow(2, FracBits)
MinNormalQ == Pow(2, DBL_MANT_DIG - 1)
MaxQ == (Pow(2, DBL_MANT_DIG) - 1) * Pow(2, MaxExpBits) * Quantum

Dbl(neg, q) == [cls |-> "fin", neg |-> neg, q |-> q]
DblInf(neg) == [cls |-> "inf", neg |-> neg, q |-> 0]
DblNaN == [cls |-> "nan", neg |-> FALSE, q |-> 0]

RECURSIVE StepFor(_)
StepFor(x) == IF x < Pow(2, DBL_MANT_DIG) THEN 1 ELSE 2 * StepFor(x \div 2)

IsRepresentableQ(q) == q <= MaxQ /\ q % StepFor(q) = 0

\* round num/den to the nearest integer, ties to even
RoundHalfEven(num, den) ==
    LET fl == num \div den
        rem2 == 2 * (num % den)
    IN  IF rem2 < den THEN fl
        ELSE IF rem2 > den THEN fl + 1
        ELSE IF fl % 2 = 0 THEN fl ELSE fl + 1

\* the double nearest to num/den quanta (num >= 0, den > 0)
RoundToDouble(num, den) ==
    LET step == StepFor(num \div den)
        q == RoundHalfEven(num, den * step) * step
    IN  [q |-> q,
         inexact |-> q * den # num,
         tiny |-> num < MinNormalQ * den,
         overflow |-> q > MaxQ]

\* (double) of an integer
IntToDouble(i) ==
    IF i < 0 THEN Dbl(TRUE, RoundToDouble((0 - i) * Quantum, 1).q)
    ELSE Dbl(FALSE, RoundToDouble(i * Quantum, 1).q)

\* a test that lets the infinities through
std_isfinite_or_inf(d) == d.cls # "nan"
std_isfinite(d) == d.cls = "fin"
DblIsZero(d) == d.cls = "fin" /\ d.q = 0
\* d < 0
DblIsNeg(d) == d.cls # "nan" /\ d.neg /\ ~DblIsZero(d)
\* a == b on doubles (IEEE: NaN differs from everything, 0.0 == -0.0)
DblEq(a, b) ==
    /\ a.cls # "nan" /\ b.cls # "nan"
    /\ \/ DblIsZero(a) /\ DblIsZero(b)
       \/ a.cls = b.cls /\ a.neg = b.neg /\ a.q = b.q
\* trunc(d) == d
DblIsIntegral(d) == d.cls = "inf" \/ (d.cls = "fin" /\ d.q % Quantum = 0)

DBL_DECIMAL_DIG ==
    CHOOSE k \in 1..20 : /\ Pow(10, k - 1) > Pow(2, DBL_MANT_DIG)
                         /\ \A j \in 1..(k - 1) : Pow(10, j - 1) <= Pow(2, DBL_MANT_DIG)

(***************************************************************************)
(* Number <-> text conversions of the C library                            *)
(***************************************************************************)
RECURSIVE DecDigits(_)
DecDigits(k) ==
    IF k < 10 THEN <<Ch.d0 + k>> ELSE DecDigits(k \div 10) \o <<Ch.d0 + (k % 10)>>

\* std::to_string of an integer
std_to_string(i) == IF i < 0 THEN <<Ch.minus>> \o DecDigits(0 - i) ELSE DecDigits(i)

RECURSIVE PadDigits(_, _)
PadDigits(k, width) ==
    IF width = 0 THEN <<>> ELSE PadDigits(k \div 10, width - 1) \o <<Ch.d0 + (k % 10)>>

RECURSIVE StripZeros(_)
StripZeros(s) ==
    IF s # <<>> /\ s[Len(s)] = Ch.d0 THEN StripZeros(SubSeq(s, 1, Len(s) - 1)) ELSE s

RECURSIVE Log10Floor(_, _)
Log10Floor(num, den) ==
    IF num < den THEN Log10Floor(num * 10, den) - 1
    ELSE IF num >= 10 * den THEN Log10Floor(num, den * 10) + 1
    ELSE 0

\* snprintf(buf, n, "%.*g", P, d) for a finite d
FormatG(P, d) ==
    LET sign == IF d.neg THEN <<Ch.minus>> ELSE <<>>
    IN  IF d.q = 0 THEN sign \o <<Ch.d0>>
        ELSE
        LET X0 == Log10Floor(d.q, Quantum)
            sh == P - 1 - X0
            dd0 == IF sh >= 0 THEN RoundHalfEven(d.q * Pow(10, sh), Quantum)
                   ELSE RoundHalfEven(d.q, Quantum * Pow(10, 0 - sh))
            carry == dd0 = Pow(10, P)
            dd == IF carry THEN Pow(10, P - 1) ELSE dd0
            X == IF carry THEN X0 + 1 ELSE X0
        IN  IF X < 0 - 4 \/ X >= P
            THEN LET digs == PadDigits(dd, P)
                     fracpart == StripZeros(SubSeq(digs, 2, P))
                     mant == IF fracpart = <<>> THEN <<digs[1]>>
                             ELSE <<digs[1], Ch.dot>> \o fracpart
                     ax == IF X < 0 THEN 0 - X ELSE X
                     ex == IF ax < 10 THEN <<Ch.d0>> \o DecDigits(ax) ELSE DecDigits(ax)
                 IN  sign \o mant \o <<Ch.e, IF X < 0 THEN Ch.minus ELSE Ch.plus>> \o ex
            ELSE LET k == P - 1 - X
                     ip == DecDigits(dd \div Pow(10, k))
                     fracpart == StripZeros(PadDigits(dd % Pow(10, k), k))
                 IN  IF fracpart = <<>> THEN sign \o ip
                     ELSE sign \o ip \o <<Ch.dot>> \o fracpart

\* index of the first non-digit at or after i
RECURSIVE DigitRunEnd(_, _)
DigitRunEnd(s, i) ==
    IF i <= Len(s) /\ IsDigit(s[i]) THEN DigitRunEnd(s, i + 1) ELSE i

\* value of the digits s[i..j-1], saturating at cap
RECURSIVE DigitsValue(_, _, _, _, _)
DigitsValue(s, i, j, acc, cap) ==
    IF i >= j THEN acc
    ELSE LET nx == acc * 10 + (s[i] - Ch.d0)
         IN  DigitsValue(s, i + 1, j, IF nx > cap THEN cap ELSE nx, cap)

ERANGE == "ERANGE"

\* strtoull(txt, &endptr, 10) on a text that starts with a digit
strtoull(txt) ==
    With(DigitRunEnd(txt, 1), LAMBDA j :
    With(DigitsValue(txt, 1, j, 0, UINT64_MAX + 1), LAMBDA v :
        IF v > UINT64_MAX
        THEN [errno |-> ERANGE, value |-> UINT64_MAX, endptr |-> j - 1]
        ELSE [errno |-> "0", value |-> v, endptr |-> j - 1]))

\* strtoll(txt, &endptr, 10) on a text that starts with '-'
strtoll(txt) ==
    With(DigitRunEnd(txt, 2), LAMBDA j :
    With(DigitsValue(txt, 2, j, 0, 0 - INT64_MIN + 1), LAMBDA v :
        IF j = 2 THEN [errno |-> "0", value |-> 0, endptr |-> 0]
        ELSE IF 0 - v < INT64_MIN
        THEN [errno |-> ERANGE, value |-> INT64_MIN, endptr |-> j - 1]
        ELSE [errno |-> "0", value |-> 0 - v, endptr |-> j - 1]))

\* 10^k, saturating at cap
RECURSIVE Pow10Cap(_, _)
Pow10Cap(k, cap) ==
    IF k = 0 THEN 1
    ELSE With(Pow10Cap(k - 1, cap), LAMBDA p : IF p * 10 > cap THEN cap ELSE p * 10)

\* strtod(txt, &endptr) on a text of the shape -?digits(.digits)?([eE][+-]?digits)?
\* erangeOnSubnormal: whether the C library reports ERANGE for a result
\* that underflows (is below the normal range and inexact).
\* The conversion proper: mant * 10^e10, correctly rounded
strtod_round(neg, mant, e10, endp, erangeOnSubnormal) ==
    With(8 * MaxQ, LAMBDA big :
    With(IF e10 >= 0
         THEN With(mant * Pow10Cap(e10, big), LAMBDA m : IF m > big THEN big ELSE m)
         ELSE mant, LAMBDA num :
    With(RoundToDouble(num * Quantum, IF e10 >= 0 THEN 1 ELSE Pow10Cap(0 - e10, 64 * big)),
         LAMBDA r :
        IF mant = 0 THEN [errno |-> "0", value |-> Dbl(neg, 0), endptr |-> endp]
        ELSE IF r.overflow THEN [errno |-> ERANGE, value |-> DblInf(neg), endptr |-> endp]
        ELSE IF r.tiny /\ r.inexact /\ erangeOnSubnormal
             THEN [errno |-> ERANGE, value |-> Dbl(neg, r.q), endptr |-> endp]
        ELSE [errno |-> "0", value |-> Dbl(neg, r.q), endptr |-> endp])))

\* the exponent part, which starts at txt[f1] when there is one
strtod_exp(txt, neg, mant, fraclen, f1, erangeOnSubnormal) ==
    With(f1 + 1 <= Len(txt) /\ txt[f1 + 1] \in {Ch.plus, Ch.minus}, LAMBDA hasExpSign :
    With(IF hasExpSign THEN f1 + 2 ELSE f1 + 1, LAMBDA e0 :
    With(/\ f1 <= Len(txt) /\ txt[f1] \in {Ch.e, Ch.E}
         /\ e0 <= Len(txt) /\ IsDigit(txt[e0]), LAMBDA hasExp :
    With(IF hasExp THEN DigitRunEnd(txt, e0) ELSE f1, LAMBDA e1 :
    With(IF hasExp THEN DigitsValue(txt, e0, e1, 0, 99) ELSE 0, LAMBDA eabs :
        strtod_round(neg, mant,
                     (IF hasExp /\ hasExpSign /\ txt[f1 + 1] = Ch.minus
                      THEN 0 - eabs ELSE eabs) - fraclen,
                     e1 - 1, erangeOnSubnormal))))))

strtod(txt, erangeOnSubnormal) ==
    With(txt # <<>> /\ txt[1] = Ch.minus, LAMBDA neg :
    With(IF neg THEN 2 ELSE 1, LAMBDA i0 :
    With(DigitRunEnd(txt, i0), LAMBDA i1 :
    With(i1 < Len(txt) /\ txt[i1] = Ch.dot /\ IsDigit(txt[i1 + 1]), LAMBDA hasFrac :
    With(IF hasFrac THEN DigitRunEnd(txt, i1 + 1) ELSE i1, LAMBDA f1 :
    With(DigitsValue(txt, i0, i1, 0, 8 * MaxQ), LAMBDA ipart :
        IF i1 = i0 THEN [errno |-> "0", value |-> Dbl(FALSE, 0), endptr |-> 0]
        ELSE strtod_exp(txt, neg,
                        IF hasFrac THEN DigitsValue(txt, i1 + 1, f1, ipart, 8 * MaxQ)
                        ELSE ipart,
                        IF hasFrac THEN f1 - (i1 + 1) ELSE 0,
                        f1, erangeOnSubnormal)))))))

(***************************************************************************)
(* UTF-8 codec (utf_conv.h)                                                *)
(***************************************************************************)
IsCont(b) == b >= 128 /\ b <= 191

DecodeBad == [ok |-> FALSE, cp |-> 0, consumed |-> 0]

\* UTF::decode_one_utf8 on a non-empty byte sequence
decode_one_utf8(s) ==
    LET b1 == s[1]
        len == Len(s)
    IN  IF b1 < 128 THEN [ok |-> TRUE, cp |-> b1, consumed |-> 1]
        ELSE IF b1 >= 194 /\ b1 <= 223
        THEN IF len >= 2 /\ IsCont(s[2])
             THEN [ok |-> TRUE, cp |-> (b1 - 192) * 64 + (s[2] - 128), consumed |-> 2]
             ELSE DecodeBad
        ELSE IF b1 >= 224 /\ b1 <= 239
        THEN IF len >= 3 /\ IsCont(s[2]) /\ IsCont(s[3])
             THEN LET cp == (b1 - 224) * 4096 + (s[2] - 128) * 64 + (s[3] - 128)
                  IN  IF cp < 2048 \/ (cp >= 55296 /\ cp <= 57343) THEN DecodeBad
                      ELSE [ok |-> TRUE, cp |-> cp, consumed |-> 3]
             ELSE DecodeBad
        ELSE IF b1 >= 240 /\ b1 <= 244
        THEN IF len >= 4 /\ IsCont(s[2]) /\ IsCont(s[3]) /\ IsCont(s[4])
             THEN LET cp == (b1 - 240) * 262144 + (s[2] - 128) * 4096
                            + (s[3] - 128) * 64 + (s[4] - 128)
                  IN  IF cp < 65536 \/ cp > 1114111 THEN DecodeBad
                      ELSE [ok |-> TRUE, cp |-> cp, consumed |-> 4]
             ELSE DecodeBad
        ELSE DecodeBad

\* UTF::encode_utf8 of one codepoint
encode_utf8(cp) ==
    IF cp < 128 THEN <<cp>>
    ELSE IF cp < 2048 THEN <<192 + (cp \div 64), 128 + (cp % 64)>>
    ELSE IF cp < 65536
    THEN <<224 + (cp \div 4096), 128 + ((cp \div 64) % 64), 128 + (cp % 64)>>
    ELSE <<240 + (cp \div 262144), 128 + ((cp \div 4096) % 64),
           128 + ((cp \div 64) % 64), 128 + (cp % 64)>>

BOM == encode_utf8(65279)

(***************************************************************************)
(* Value                                                                   *)
(***************************************************************************)
Position(ln, lp, off) == [m_line_number |-> ln, m_line_pos |-> lp, m_offset |-> off]
NoPosition == Position(0, 0, 0)

MkValue(t, v, p) == [m_type |-> t, m_value |-> v, m_position |-> p]

ValueNull(p) == MkValue("Null", <<>>, p)
ValueBool(v, p) == MkValue("Boolean", v, p)
ValueUInt64(v, p) == MkValue("UInt64", v, p)
\* variant chosen by the sign of the value instead of by the constructor
ValueInt64_by_sign(v, p) == IF v >= 0 THEN MkValue("UInt64", v, p) ELSE MkValue("Int64", v, p)
ValueInt64(v, p) == MkValue("Int64", v, p)
\* Value(double, Position): throws BadValueException on a non-finite double
ValueDouble(v, p) ==
    IF ~std_isfinite(v) THEN [exc |-> "BadValueException"]
    ELSE [exc |-> "none", value |-> MkValue("Double", v, p)]
ValueString(v, p) == MkValue("String", v, p)
new_array == MkValue("Array", <<>>, NoPosition)
new_object == MkValue("Object", <<>>, NoPosition)
set_position(v, p) == [v EXCEPT !.m_position = p]

get_type(v) == v.m_type
IsNumericType(t) == t \in {"UInt64", "Int64", "Double"}
IsFloatType(t) == t = "Double"

\* std::string operator< : byte-lexicographic
RECURSIVE StrLess(_, _)
StrLess(a, b) ==
    IF b = <<>> THEN FALSE
    ELSE IF a = <<>> THEN TRUE
    ELSE IF a[1] < b[1] THEN TRUE
    ELSE IF a[1] > b[1] THEN FALSE
    ELSE StrLess(Tail(a), Tail(b))

\* ObjectValues is std::map<std::string, Value>: a sequence of members
\* kept in increasing key order, keys unique.
Member(k, v) == [key |-> k, val |-> v]

map_count(m, k) == Cardinality({i \in DOMAIN m : m[i].key = k})

map_at(m, k) == m[CHOOSE i \in DOMAIN m : m[i].key = k].val

\* number of members whose key is less than k
map_lower_bound(m, k) == Cardinality({i \in DOMAIN m : StrLess(m[i].key, k)})

\* a container that keeps the members in insertion order
map_assign_unsorted(m, k, v) ==
    IF \E i \in DOMAIN m : m[i].key = k
    THEN [i \in DOMAIN m |-> IF m[i].key = k THEN [key |-> k, val |-> v] ELSE m[i]]
    ELSE Append(m, [key |-> k, val |-> v])

\* std::map::insert in place of operator[]: an existing member is kept
map_assign_keep_first(m, k, v) ==
    IF \E i \in DOMAIN m : m[i].key = k THEN m
    ELSE SubSeq(m, 1, map_lower_bound(m, k)) \o <<[key |-> k, val |-> v]>>
         \o SubSeq(m, map_lower_bound(m, k) + 1, Len(m))

\* m[k] = v  (std::map::operator[] then assignment)
map_assign(m, k, v) ==
    LET lb == map_lower_bound(m, k)
    IN  IF map_count(m, k) # 0
        THEN [m EXCEPT ![lb + 1] = Member(k, v)]
        ELSE SubSeq(m, 1, lb) \o <<Member(k, v)>> \o SubSeq(m, lb + 1, Len(m))

\* an operator[] that resets the member it finds
map_index_resetting(m, k) == map_assign(m, k, ValueNull(NoPosition))

\* m[k] used as an rvalue reference: inserts a Null member when k is absent
map_index(m, k) == IF map_count(m, k) # 0 THEN m ELSE map_assign(m, k, ValueNull(NoPosition))

\* Value(std::initializer_list<std::tuple<std::string, Value>>)
RECURSIVE InitListFill(_, _)
InitListFill(content, l) ==
    IF l = <<>> THEN content
    ELSE InitListFill(map_assign(content, l[1].key, l[1].val), Tail(l))

ValueInitList(l) == MkValue("Object", InitListFill(<<>>, l), NoPosition)

\* the Types with a native payload type (TypeToNative<Null>::type is void)
NativeTypes == {"Boolean", "UInt64", "Int64", "Double", "String", "Object", "Array"}

\* a get that hands out the payload whatever its type
get_unchecked(v, dt) == [exc |-> "none", ref |-> v.m_value]

\* Value::get<dt>(): std::any_cast<T &>(m_value).  Every constructor stores
\* the native type of the m_type it sets, and Value() stores nothing, so the
\* type held by m_value is the one m_type names.
get(v, dt) ==
    IF v.m_type = dt THEN [exc |-> "none", ref |-> v.m_value]
    ELSE [exc |-> "std::bad_any_cast"]

\* Value::get_ptr<dt>(): std::any_cast<T>(&m_value)
get_ptr(v, dt) ==
    IF v.m_type = dt THEN [null |-> FALSE, ref |-> v.m_value]
    ELSE [null |-> TRUE]

\* a read-only access that answers Null for a key that is not there
index_const_or_null(v, key) ==
    With(get(v, "Object"), LAMBDA r :
         IF r.exc # "none" THEN r
         ELSE IF map_count(r.ref, key) = 0 THEN [exc |-> "none", ref |-> ValueNull(NoPosition)]
         ELSE [exc |-> "none", ref |-> map_at(r.ref, key)])

\* Value::operator[](key) const: get<Type::Object>().at(key)
index_const(v, key) ==
    With(get(v, "Object"), LAMBDA r :
         IF r.exc # "none" THEN r
         ELSE IF map_count(r.ref, key) = 0 THEN [exc |-> "std::out_of_range"]
         ELSE [exc |-> "none", ref |-> map_at(r.ref, key)])

\* Value::operator[](key): get<Type::Object>()[key]; value is the Value after
\* the call, ref the member the returned reference designates
index(v, key) ==
    With(get(v, "Object"), LAMBDA r :
         IF r.exc # "none" THEN [exc |-> r.exc, value |-> v]
         ELSE With(map_index(r.ref, key), LAMBDA m :
                   [exc |-> "none", value |-> [v EXCEPT !.m_value = m], ref |-> map_at(m, key)]))

\* Value::contains(key)
contains(v, key) ==
    With(get(v, "Object"), LAMBDA r :
         IF r.exc # "none" THEN r ELSE [exc |-> "none", ret |-> map_count(r.ref, key) # 0])

\* Value::size()
size(v) ==
    IF v.m_type \in {"Array", "Object", "String"}
    THEN With(get(v, v.m_type), LAMBDA r :
              IF r.exc # "none" THEN r ELSE [exc |-> "none", ret |-> Len(r.ref)])
    ELSE [exc |-> "std::bad_any_cast"]

(***************************************************************************)
(* Value objects in storage                                                *)
(*                                                                         *)
(* Where two Value objects exist side by side, what each one owns matters. *)
(* m_value is a std::any: for an Array or an Object it manages an object   *)
(* of its own, a std::vector<Value> or a std::map<std::string, Value>,     *)
(* whose elements are Value objects again.  A stored Value is the record   *)
(* of its three members in which the m_value of a container is the address *)
(* of the managed object; heap[x] is the managed object at address x, its  *)
(* elements being stored Values.  A scalar's payload is held by value.     *)
(***************************************************************************)
IsContainer(t) == t \in {"Array", "Object"}

\* the i-th element (or member value) of a container's content, and the
\* content with that element replaced
ChildAt(t, content, i) == IF t = "Array" THEN content[i] ELSE content[i].val
WithChild(t, content, i, v) ==
    IF t = "Array" THEN [content EXCEPT ![i] = v] ELSE [content EXCEPT ![i].val = v]

\* the Value v, given as a tree, constructed in storage
RECURSIVE Store(_, _)
RECURSIVE StoreChildren(_, _, _, _)
StoreChildren(heap, t, content, i) ==
    IF i > Len(content) THEN [heap |-> heap, content |-> content]
    ELSE With(Store(heap, ChildAt(t, content, i)), LAMBDA r :
              StoreChildren(r.heap, t, WithChild(t, content, i, r.value), i + 1))
Store(heap, v) ==
    IF ~IsContainer(v.m_type) THEN [heap |-> heap, value |-> v]
    ELSE With(StoreChildren(heap, v.m_type, v.m_value, 1), LAMBDA r :
              [heap |-> Append(r.heap, r.content),
               value |-> [v EXCEPT !.m_value = Len(r.heap) + 1]])

\* the tree a stored Value stands for
RECURSIVE Load(_, _)
Load(heap, h) ==
    IF ~IsContainer(h.m_type) THEN h
    ELSE [h EXCEPT !.m_value =
             [i \in DOMAIN heap[h.m_value] |->
                 IF h.m_type = "Array" THEN Load(heap, heap[h.m_value][i])
                 ELSE Member(heap[h.m_value][i].key, Load(heap, heap[h.m_value][i].val))]]

RECURSIVE any_copy(_, _, _)
RECURSIVE copy_elements(_, _, _, _)

\* Value::Value(const Value &other): m_type(other.m_type),
\* m_value(other.m_value), m_position(other.m_position)
Value_copy(heap, other) ==
    With(any_copy(heap, other.m_type, other.m_value), LAMBDA r :
         [heap |-> r.heap,
          value |-> MkValue(other.m_type, r.m_value, other.m_position)])

\* the copy constructor of std::vector<Value> and of std::map<std::string,
\* Value>: every element is copy-constructed
copy_elements(heap, t, content, i) ==
    IF i > Len(content) THEN [heap |-> heap, content |-> content]
    ELSE With(Value_copy(heap, ChildAt(t, content, i)), LAMBDA r :
              copy_elements(r.heap, t, WithChild(t, content, i, r.value), i + 1))

\* a copy that shares the managed object with the original, as a
\* reference-counted pointer would
any_copy_sharing(heap, t, x) == [heap |-> heap, m_value |-> x]

\* the copy constructor of std::any: a new managed object, copy-constructed
\* from the one of the original
any_copy(heap, t, x) ==
    IF ~IsContainer(t) THEN [heap |-> heap, m_value |-> x]
    ELSE With(copy_elements(heap, t, heap[x], 1), LAMBDA r :
              [heap |-> Append(r.heap, r.content), m_value |-> Len(r.heap) + 1])

\* Value::operator=(const Value &other) on the Value object this
Value_assign(heap, this, other) ==
    With(any_copy(heap, other.m_type, other.m_value), LAMBDA r :
         [heap |-> r.heap,
          value |-> [this EXCEPT !.m_type = other.m_type, !.m_value = r.m_value,
                                 !.m_position = other.m_position]])

\* the Value object reached from the Value object h by x[i] (or the i-th
\* member's value), step after step
RECURSIVE ValueAt(_, _, _)
ValueAt(heap, h, path) ==
    IF path = <<>> THEN h
    ELSE ValueAt(heap, ChildAt(h.m_type, heap[h.m_value], Head(path)), Tail(path))

\* the paths of at most two steps that lead from h to a Value object
PathsFrom(heap, h) ==
    {<<>>}
    \cup (IF ~IsContainer(h.m_type) THEN {}
          ELSE {<<i>> : i \in DOMAIN heap[h.m_value]}
               \cup UNION { With(ChildAt(h.m_type, heap[h.m_value], i), LAMBDA k :
                                 IF ~IsContainer(k.m_type) THEN {}
                                 ELSE {<<i, j>> : j \in DOMAIN heap[k.m_value]}) :
                            i \in DOMAIN heap[h.m_value] })

\* the Value object at the end of path overwritten by v: an element is
\* overwritten inside the managed object that holds it
RECURSIVE PutAt(_, _, _, _)
PutAt(heap, h, path, v) ==
    IF path = <<>> THEN [heap |-> heap, value |-> v]
    ELSE With(PutAt(heap, ChildAt(h.m_type, heap[h.m_value], Head(path)), Tail(path), v),
              LAMBDA r :
              [heap |-> [r.heap EXCEPT ![h.m_value] =
                            WithChild(h.m_type, @, Head(path), r.value)],
               value |-> h])

\* conversion of an integer payload to uint64_t
AsUInt64(i) == i % (UINT64_MAX + 1)

\* a sign lambda that forgets the Int64 case
get_sign_of_double_only(v) == IF v.m_type = "Double" THEN DblIsNeg(v.m_value) ELSE FALSE

\* the sign lambda of numeric_equal
get_sign(v) ==
    IF v.m_type = "Int64" THEN v.m_value < 0
    ELSE IF v.m_type = "Double" THEN DblIsNeg(v.m_value)
    ELSE FALSE

\* (uint64_t) trunc(va); ub is what the build yields when va is out of range
CastToUInt64(va, ub) ==
    IF va.cls = "fin" /\ va.q \div Quantum <= UINT64_MAX THEN va.q \div Quantum ELSE ub.u

\* (int64_t) trunc(va) for a negative va
CastToInt64(va, ub) ==
    IF va.cls = "fin" /\ 0 - (va.q \div Quantum) >= INT64_MIN THEN 0 - (va.q \div Quantum)
    ELSE ub.i

\* Value::numeric_equal, the branch with exactly one Double
numeric_equal_mixed(ra, rb, ub) ==
    LET va == ra.m_value
    IN  IF ~DblIsIntegral(va) THEN FALSE
        ELSE IF ~DblIsNeg(va)
        THEN LET ua == CastToUInt64(va, ub)
             IN  IF ~DblEq(va, IntToDouble(ua)) THEN FALSE
                 ELSE IF rb.m_type \in {"Int64", "UInt64"}
                      THEN DblEq(va, IntToDouble(AsUInt64(rb.m_value)))
                      ELSE FALSE
        ELSE LET ia == CastToInt64(va, ub)
             IN  IF ~DblEq(va, IntToDouble(ia)) THEN FALSE
                 ELSE DblEq(va, IntToDouble(rb.m_value))

\* Value::numeric_equal for two numeric values of different types
numeric_equal(a, b, ub) ==
    LET a_is_neg == get_sign(a)
        b_is_neg == get_sign(b)
        a_is_float == IsFloatType(a.m_type)
        b_is_float == IsFloatType(b.m_type)
    IN  IF a_is_neg # b_is_neg THEN FALSE
        ELSE IF a_is_float /\ b_is_float THEN DblEq(a.m_value, b.m_value)
        ELSE IF ~(a_is_float \/ b_is_float)
        THEN IF a_is_neg THEN a.m_value = b.m_value
             ELSE AsUInt64(a.m_value) = AsUInt64(b.m_value)
        ELSE IF a_is_float THEN numeric_equal_mixed(a, b, ub)
        ELSE numeric_equal_mixed(b, a, ub)

\* Value::operator==
RECURSIVE ValueEq(_, _, _)
ValueEq(a, b, ub) ==
    IF a.m_type # b.m_type
    THEN IF IsNumericType(a.m_type) /\ IsNumericType(b.m_type)
         THEN numeric_equal(a, b, ub)
         ELSE FALSE
    ELSE CASE a.m_type = "Null" -> TRUE
           [] a.m_type \in {"Boolean", "UInt64", "Int64", "String"} -> a.m_value = b.m_value
           [] a.m_type = "Double" -> DblEq(a.m_value, b.m_value)
           [] a.m_type = "Array" ->
                /\ Len(a.m_value) = Len(b.m_value)
                /\ \A i \in DOMAIN a.m_value : ValueEq(a.m_value[i], b.m_value[i], ub)
           [] a.m_type = "Object" ->
                /\ Len(a.m_value) = Len(b.m_value)
                /\ \A i \in DOMAIN a.m_value :
                      /\ a.m_value[i].key = b.m_value[i].key
                      /\ ValueEq(a.m_value[i].val, b.m_value[i].val, ub)

\* Value::operator!=
ValueNe(a, b, ub) == ~ValueEq(a, b, ub)

(***************************************************************************)
(* Generator                                                               *)
(***************************************************************************)
\* the same table in lowercase
hex_encode_lowercase(k) == IF k < 10 THEN Ch.d0 + k ELSE Ch.a + (k - 10)
hex_encode(k) == IF k < 10 THEN Ch.d0 + k ELSE Ch.A + (k - 10)

Hex4(cp) == <<hex_encode((cp \div 4096) % 16), hex_encode((cp \div 256) % 16),
              hex_encode((cp \div 16) % 16), hex_encode(cp % 16)>>

\* escape_string escaping only what JSON makes mandatory
EscapeOne_mandatory_only(cp) ==
    IF cp = Ch.lf THEN <<Ch.backslash, Ch.n>>
    ELSE IF cp = Ch.cr THEN <<Ch.backslash, Ch.r>>
    ELSE IF cp = Ch.tab THEN <<Ch.backslash, Ch.t>>
    ELSE IF cp = Ch.backslash THEN <<Ch.backslash, Ch.backslash>>
    ELSE IF cp = Ch.quote THEN <<Ch.backslash, Ch.quote>>
    ELSE IF cp < 32 THEN <<Ch.backslash, Ch.u>> \o Hex4(cp)
    ELSE encode_utf8(cp)

\* the escape sequence (or literal bytes) escape_string emits for codepoint cp
EscapeOne(cp) ==
    IF cp = Ch.lf THEN <<Ch.backslash, Ch.n>>
    ELSE IF cp = Ch.cr THEN <<Ch.backslash, Ch.r>>
    ELSE IF cp = Ch.tab THEN <<Ch.backslash, Ch.t>>
    ELSE IF cp = Ch.backslash THEN <<Ch.backslash, Ch.backslash>>
    ELSE IF cp = Ch.quote THEN <<Ch.backslash, Ch.quote>>
    ELSE IF cp < 32 \/ (cp >= 127 /\ cp <= 65535)
    THEN <<Ch.backslash, Ch.u>> \o Hex4(cp)
    ELSE IF cp >= 65536
    THEN LET c == cp - 65536
             hi == ((c \div 1024) % 1024) + 55296
             lo == (c % 1024) + 56320
         IN  <<Ch.backslash, Ch.u>> \o Hex4(hi) \o <<Ch.backslash, Ch.u>> \o Hex4(lo)
    ELSE encode_utf8(cp)

GenOk(out) == [exc |-> "none", out |-> out]
GenThrow(e) == [exc |-> e, out |-> <<>>]

\* a loop that leaves out the bytes it cannot decode
RECURSIVE EscapeLoop_skipping(_, _)
EscapeLoop_skipping(rem, out) ==
    IF rem = <<>> THEN GenOk(out \o <<Ch.quote>>)
    ELSE LET r == decode_one_utf8(rem)
         IN  IF ~r.ok THEN EscapeLoop_skipping(Tail(rem), out)
             ELSE EscapeLoop_skipping(SubSeq(rem, r.consumed + 1, Len(rem)),
                                      out \o EscapeOne(r.cp))

\* the loop of Generator::escape_string over the remaining bytes
RECURSIVE EscapeLoop(_, _)
EscapeLoop(rem, out) ==
    IF rem = <<>> THEN GenOk(out \o <<Ch.quote>>)
    ELSE LET r == decode_one_utf8(rem)
         IN  IF ~r.ok THEN GenThrow("BadEncodingException")
             ELSE EscapeLoop(SubSeq(rem, r.consumed + 1, Len(rem)), out \o EscapeOne(r.cp))

\* Generator::escape_string
escape_string(in) == EscapeLoop(in, <<Ch.quote>>)

\* std::transform_reduce(next(begin), end, tf(*begin), binop, tf) with
\* binop(s1, s2) = s1 + sep + s2, over already transformed items
RECURSIVE JoinFrom(_, _, _, _)
JoinFrom(items, i, acc, sep) ==
    IF acc.exc # "none" THEN acc
    ELSE IF i > Len(items) THEN acc
    ELSE IF items[i].exc # "none" THEN items[i]
    ELSE JoinFrom(items, i + 1, GenOk(acc.out \o sep \o items[i].out), sep)

transform_reduce(items, sep) == JoinFrom(items, 2, items[1], sep)

Wrap(open, r, close) == IF r.exc # "none" THEN r ELSE GenOk(open \o r.out \o close)

\* Generator::to_string (compact)
RECURSIVE to_string(_)
to_string(value) ==
    CASE value.m_type = "Null" -> GenOk(<<Ch.n, Ch.u, Ch.l, Ch.l>>)
      [] value.m_type = "Boolean" ->
            GenOk(IF value.m_value THEN <<Ch.t, Ch.r, Ch.u, Ch.e>>
                  ELSE <<Ch.f, Ch.a, Ch.l, Ch.s, Ch.e>>)
      [] value.m_type = "UInt64" -> GenOk(std_to_string(value.m_value))
      [] value.m_type = "Int64" -> GenOk(std_to_string(value.m_value))
      [] value.m_type = "Double" -> GenOk(FormatG(DBL_DECIMAL_DIG, value.m_value))
      [] value.m_type = "String" -> escape_string(value.m_value)
      [] value.m_type = "Array" ->
            IF Len(value.m_value) = 0 THEN GenOk(<<Ch.lbracket, Ch.rbracket>>)
            ELSE Wrap(<<Ch.lbracket>>,
                      transform_reduce([i \in DOMAIN value.m_value |-> to_string(value.m_value[i])],
                                       <<Ch.comma, Ch.space>>),
                      <<Ch.rbracket>>)
      [] value.m_type = "Object" ->
            IF Len(value.m_value) = 0 THEN GenOk(<<Ch.lbrace, Ch.rbrace>>)
            ELSE Wrap(<<Ch.lbrace>>,
                      transform_reduce(
                          [i \in DOMAIN value.m_value |->
                              LET k == escape_string(value.m_value[i].key)
                              IN  IF k.exc # "none" THEN k
                                  ELSE Wrap(k.out \o <<Ch.colon, Ch.space>>,
                                            to_string(value.m_value[i].val), <<>>)],
                          <<Ch.comma, Ch.space>>),
                      <<Ch.rbrace>>)

\* Generator::to_string_pretty_priv
RECURSIVE to_string_pretty_priv(_, _, _, _)
to_string_pretty_priv(value, space, add_space, prefix) ==
    CASE value.m_type \in {"Null", "Boolean", "UInt64", "Int64", "Double", "String"} ->
            Wrap(space \o prefix, to_string(value), <<>>)
      [] value.m_type = "Array" ->
            IF Len(value.m_value) = 0 THEN GenOk(space \o prefix \o <<Ch.lbracket, Ch.rbracket>>)
            ELSE LET next_space == add_space \o space
                 IN  Wrap(space \o prefix \o <<Ch.lbracket, Ch.lf>>,
                          transform_reduce(
                              [i \in DOMAIN value.m_value |->
                                  to_string_pretty_priv(value.m_value[i], next_space, add_space, <<>>)],
                              <<Ch.comma, Ch.lf>>),
                          <<Ch.lf>> \o space \o <<Ch.rbracket>>)
      [] value.m_type = "Object" ->
            IF Len(value.m_value) = 0 THEN GenOk(space \o prefix \o <<Ch.lbrace, Ch.rbrace>>)
            ELSE LET next_space == add_space \o space
                 IN  Wrap(space \o prefix \o <<Ch.lbrace, Ch.lf>>,
                          transform_reduce(
                              [i \in DOMAIN value.m_value |->
                                  LET k == escape_string(value.m_value[i].key)
                                  IN  IF k.exc # "none" THEN k
                                      ELSE to_string_pretty_priv(value.m_value[i].val, next_space,
                                               add_space, k.out \o <<Ch.space, Ch.colon, Ch.space>>)],
                              <<Ch.comma, Ch.lf>>),
                          <<Ch.lf>> \o space \o <<Ch.rbrace>>)

\* Generator::to_string_pretty
to_string_pretty(value, indent) == to_string_pretty_priv(value, <<>>, Spaces(indent), <<>>)

(***************************************************************************)
(* Parser                                                                  *)
(*                                                                         *)
(* The members m_sv, m_position and m_depth are threaded through the       *)
(* routines as a record st; c holds what does not change during a parse:   *)
(* m_max_depth and the C library's strtod behaviour.  Every routine        *)
(* returns a record with the field exc ("none" or the exception thrown)    *)
(* and the parser members st as they are when it returns or throws.        *)
(* m_depth_seen is no member of Parser: it records every value m_depth has *)
(* held since init, for the properties that speak of the steps of a parse. *)
(***************************************************************************)
ParserState(sv, pos, depth) ==
    [m_sv |-> sv, m_position |-> pos, m_depth |-> depth, m_depth_seen |-> {depth}]

Throw(e, st) == [exc |-> e, st |-> st, errpos |-> NoPosition]

\* Parser::malformed_exception
malformed_exception(st) ==
    [exc |-> "MalFormedException", st |-> st, errpos |-> st.m_position]

\* an init that goes on counting lines and columns where the last parse stopped
init_keeping_position(st, input) ==
    [st EXCEPT !.m_sv = input, !.m_depth = 0, !.m_depth_seen = {0}]

\* Parser::init, on the members st the last parse left
init(st, input) ==
    [st EXCEPT !.m_sv = input, !.m_position = Position(1, 1, 0), !.m_depth = 0,
               !.m_depth_seen = {0}]

\* "r = f(...)" followed by the rest of the routine, which an exception skips
Try(r, F(_)) == IF r.exc # "none" THEN r ELSE F(r)

\* a pick_codepoint that reads an ill-formed byte as U+FFFD
pick_codepoint_replacing(st) ==
    IF Len(st.m_sv) = 0 THEN [exc |-> "none", got |-> FALSE, cp |-> 0, consumed |-> 0]
    ELSE With(decode_one_utf8(st.m_sv), LAMBDA r :
             IF ~r.ok THEN [exc |-> "none", got |-> TRUE, cp |-> 65533, consumed |-> 1]
             ELSE [exc |-> "none", got |-> TRUE, cp |-> r.cp, consumed |-> r.consumed])

\* Parser::pick_codepoint
pick_codepoint(st) ==
    IF Len(st.m_sv) = 0 THEN [exc |-> "none", got |-> FALSE, cp |-> 0, consumed |-> 0]
    ELSE With(decode_one_utf8(st.m_sv), LAMBDA r :
             IF ~r.ok THEN Throw("UTF8Exception", st)
             ELSE [exc |-> "none", got |-> TRUE, cp |-> r.cp, consumed |-> r.consumed])

\* Parser::advance_codepoint
advance_codepoint(st, cp, consumed) ==
    [st EXCEPT !.m_sv = SubSeq(st.m_sv, consumed + 1, Len(st.m_sv)),
               !.m_position =
                   IF cp = Ch.lf
                   THEN Position(st.m_position.m_line_number + 1, 1,
                                 st.m_position.m_offset + 1)
                   ELSE Position(st.m_position.m_line_number,
                                 st.m_position.m_line_pos + 1,
                                 st.m_position.m_offset + 1)]

\* Parser::read_codepoint
read_codepoint(st) ==
    Try(pick_codepoint(st), LAMBDA r :
        IF ~r.got THEN [exc |-> "none", got |-> FALSE, cp |-> 0, st |-> st]
        ELSE [exc |-> "none", got |-> TRUE, cp |-> r.cp,
              st |-> advance_codepoint(st, r.cp, r.consumed)])

IsWs(cp) == cp = Ch.space \/ cp = Ch.tab \/ cp = Ch.cr \/ cp = Ch.lf

\* Parser::eat_ws
RECURSIVE eat_ws(_)
eat_ws(st) ==
    Try(pick_codepoint(st), LAMBDA r :
        IF r.got /\ IsWs(r.cp) THEN eat_ws(advance_codepoint(st, r.cp, r.consumed))
        ELSE [exc |-> "none", st |-> st])

\* the chain of "if (!read_codepoint(cp) || cp != x) malformed_exception(..)"
\* statements of read_boolean_true, read_boolean_false and read_null
RECURSIVE expect_codepoints(_, _)
expect_codepoints(st, lit) ==
    IF lit = <<>> THEN [exc |-> "none", st |-> st]
    ELSE Try(read_codepoint(st), LAMBDA r :
             IF ~r.got \/ r.cp # lit[1] THEN malformed_exception(r.st)
             ELSE expect_codepoints(r.st, Tail(lit)))

Return(st, v) == [exc |-> "none", st |-> st, val |-> v]

\* Parser::read_boolean_true
read_boolean_true(st) ==
    Try(expect_codepoints(st, <<Ch.t, Ch.r, Ch.u, Ch.e>>), LAMBDA r :
        Return(r.st, ValueBool(TRUE, st.m_position)))

\* Parser::read_boolean_false
read_boolean_false(st) ==
    Try(expect_codepoints(st, <<Ch.f, Ch.a, Ch.l, Ch.s, Ch.e>>), LAMBDA r :
        Return(r.st, ValueBool(FALSE, st.m_position)))

\* Parser::read_null
read_null(st) ==
    Try(expect_codepoints(st, <<Ch.n, Ch.u, Ch.l, Ch.l>>), LAMBDA r :
        Return(r.st, ValueNull(st.m_position)))

\* a read_number_integer that takes what the conversion returns and does
\* not look at errno
read_number_integer_clamping(st, txt) ==
    IF txt[1] = Ch.minus
    THEN With(strtoll(txt), LAMBDA r :
             IF r.endptr # Len(txt) THEN malformed_exception(st)
             ELSE Return(st, ValueInt64(r.value, st.m_position)))
    ELSE With(strtoull(txt), LAMBDA r :
             IF r.endptr # Len(txt) THEN malformed_exception(st)
             ELSE Return(st, ValueUInt64(r.value, st.m_position)))

\* Parser::read_number_integer
read_number_integer(st, txt) ==
    IF txt[1] = Ch.minus
    THEN With(strtoll(txt), LAMBDA r :
             IF r.errno # "0" \/ r.endptr # Len(txt) THEN malformed_exception(st)
             ELSE Return(st, ValueInt64(r.value, st.m_position)))
    ELSE With(strtoull(txt), LAMBDA r :
             IF r.errno # "0" \/ r.endptr # Len(txt) THEN malformed_exception(st)
             ELSE Return(st, ValueUInt64(r.value, st.m_position)))

\* Parser::read_number_floatingpoint
read_number_floatingpoint(st, txt, c) ==
    With(strtod(txt, c.erange_on_subnormal), LAMBDA r :
        IF r.errno # "0" \/ r.endptr # Len(txt) THEN malformed_exception(st)
        ELSE With(ValueDouble(r.value, st.m_position), LAMBDA v :
                 IF v.exc # "none" THEN Throw(v.exc, st) ELSE Return(st, v.value)))

\* the end of read_number: the text read is converted
read_number_finish(st, buf, is_floatting_point, c) ==
    IF is_floatting_point THEN read_number_floatingpoint(st, buf, c)
    ELSE read_number_integer(st, buf)

\* the "other digits" loops of read_number
RECURSIVE read_digits(_, _)
read_digits(st, buf) ==
    Try(pick_codepoint(st), LAMBDA r :
        IF ~r.got THEN [exc |-> "none", st |-> st, buf |-> buf, eof |-> TRUE]
        ELSE IF IsDigit(r.cp)
        THEN read_digits(advance_codepoint(st, r.cp, r.consumed), buf \o <<r.cp % 256>>)
        ELSE [exc |-> "none", st |-> st, buf |-> buf, eof |-> FALSE])

\* Parser::read_number, the exponent part after the 'e' or 'E'
read_exponent(st, buf, c) ==
    Try(read_codepoint(st), LAMBDA r1 :
        IF ~r1.got THEN malformed_exception(st)
        ELSE Try(IF r1.cp = Ch.minus \/ r1.cp = Ch.plus THEN read_codepoint(r1.st) ELSE r1,
                 LAMBDA r2 :
                 IF ~r2.got THEN malformed_exception(r1.st)
                 ELSE IF ~IsDigit(r2.cp) THEN malformed_exception(r2.st)
                 ELSE Try(read_digits(r2.st,
                                      (IF r1.cp = Ch.minus \/ r1.cp = Ch.plus
                                       THEN buf \o <<r1.cp % 256>> ELSE buf)
                                      \o <<r2.cp % 256>>),
                          LAMBDA d : read_number_floatingpoint(d.st, d.buf, c))))

\* Parser::read_number, from the place where an exponent may start
read_number_exp(st, buf, is_floatting_point, c) ==
    Try(pick_codepoint(st), LAMBDA r :
        IF r.got /\ (r.cp = Ch.e \/ r.cp = Ch.E)
        THEN read_exponent(advance_codepoint(st, r.cp, r.consumed), buf \o <<r.cp % 256>>, c)
        ELSE read_number_finish(st, buf, is_floatting_point, c))

\* Parser::read_number, the fractional part after the '.'
read_fraction(st, buf, c) ==
    Try(read_codepoint(st), LAMBDA r1 :
        IF ~r1.got THEN malformed_exception(st)
        ELSE IF ~IsDigit(r1.cp) THEN malformed_exception(r1.st)
        ELSE Try(read_digits(r1.st, buf \o <<r1.cp % 256>>),
                 LAMBDA d : read_number_exp(d.st, d.buf, TRUE, c)))

\* Parser::read_number, from the place where a fraction may start
read_number_frac(st, buf, c) ==
    Try(pick_codepoint(st), LAMBDA r :
        IF ~r.got THEN read_number_integer(st, buf)
        ELSE IF r.cp = Ch.dot
        THEN read_fraction(advance_codepoint(st, r.cp, r.consumed), buf \o <<r.cp % 256>>, c)
        ELSE read_number_exp(st, buf, FALSE, c))

\* an integer part in which 0 is a digit like the others
read_number_int_any_digits(st, buf, c) ==
    Try(read_codepoint(st), LAMBDA r1 :
        IF ~r1.got THEN malformed_exception(st)
        ELSE IF IsDigit(r1.cp)
        THEN Try(read_digits(r1.st, buf \o <<r1.cp % 256>>),
                 LAMBDA d : IF d.eof THEN read_number_integer(d.st, d.buf)
                            ELSE read_number_frac(d.st, d.buf, c))
        ELSE malformed_exception(r1.st))

\* Parser::read_number, the integer part after the optional '-'
read_number_int(st, buf, c) ==
    Try(read_codepoint(st), LAMBDA r1 :
        IF ~r1.got THEN malformed_exception(st)
        ELSE IF r1.cp = Ch.d0 \/ (r1.cp >= Ch.d1 /\ r1.cp <= Ch.d9)
        THEN Try(IF r1.cp = Ch.d0
                 THEN [exc |-> "none", st |-> r1.st, buf |-> buf \o <<r1.cp % 256>>,
                       eof |-> FALSE]
                 ELSE read_digits(r1.st, buf \o <<r1.cp % 256>>),
                 LAMBDA d : IF d.eof THEN read_number_integer(d.st, d.buf)
                            ELSE read_number_frac(d.st, d.buf, c))
        ELSE malformed_exception(r1.st))

\* Parser::read_number
read_number(st, c) ==
    Try(pick_codepoint(st), LAMBDA r :
        IF ~r.got THEN malformed_exception(st)
        ELSE IF r.cp = Ch.minus
        THEN read_number_int(advance_codepoint(st, r.cp, r.consumed), <<r.cp % 256>>, c)
        ELSE read_number_int(st, <<>>, c))

\* the lambdas of read_string_
is_valid_hexa(v) ==
    \/ (v >= Ch.d0 /\ v <= Ch.d9)
    \/ (v >= Ch.a /\ v <= Ch.f)
    \/ (v >= Ch.A /\ v <= Ch.F)

read_hexa(v) ==
    IF v >= Ch.d0 /\ v <= Ch.d9 THEN v - Ch.d0
    ELSE IF v >= Ch.a /\ v <= Ch.f THEN v - Ch.a + 10
    ELSE IF v >= Ch.A /\ v <= Ch.F THEN v - Ch.A + 10
    ELSE 0

\* "!read_codepoint(x1) || !read_codepoint(x2) || !read_codepoint(x3) ||
\*  !read_codepoint(x4)": reads until four codepoints are read or one is missing
RECURSIVE read_four(_, _)
read_four(st, xs) ==
    IF Len(xs) = 4 THEN [exc |-> "none", got |-> TRUE, xs |-> xs, st |-> st]
    ELSE Try(read_codepoint(st), LAMBDA r :
             IF ~r.got THEN [exc |-> "none", got |-> FALSE, xs |-> xs, st |-> st]
             ELSE read_four(r.st, Append(xs, r.cp)))

\* the four hexadecimal digits of a \u escape; cp is their value
read_u_digits(st) ==
    Try(read_four(st, <<>>), LAMBDA r :
        IF ~r.got THEN malformed_exception(r.st)
        ELSE IF \E i \in 1..4 : ~is_valid_hexa(r.xs[i]) THEN malformed_exception(r.st)
        ELSE [exc |-> "none", st |-> r.st,
              cp |-> read_hexa(r.xs[1]) * 4096 + read_hexa(r.xs[2]) * 256
                     + read_hexa(r.xs[3]) * 16 + read_hexa(r.xs[4])])

\* a second half combined with the first as two halves of 16 bits
read_low_surrogate_plain(st, hi) ==
    Try(expect_codepoints(st, <<Ch.backslash, Ch.u>>), LAMBDA u :
    Try(read_u_digits(u.st), LAMBDA lo :
        IF ~(lo.cp >= 56320 /\ lo.cp <= 57343) THEN malformed_exception(lo.st)
        ELSE [exc |-> "none", st |-> lo.st,
              v |-> (hi - 55296) * 1024 + (lo.cp - 56320)]))

\* Parser::read_string_, the second half of a surrogate pair
read_low_surrogate(st, hi) ==
    Try(expect_codepoints(st, <<Ch.backslash, Ch.u>>), LAMBDA u :
    Try(read_u_digits(u.st), LAMBDA lo :
        IF ~(lo.cp >= 56320 /\ lo.cp <= 57343) THEN malformed_exception(lo.st)
        ELSE [exc |-> "none", st |-> lo.st,
              v |-> 65536 + (hi - 55296) * 1024 + (lo.cp - 56320)]))

\* a \u branch that takes a second half on its own as a codepoint
read_u_escape_lone_low(st) ==
    Try(read_u_digits(st), LAMBDA h :
        IF h.cp >= 55296 /\ h.cp <= 56319 THEN read_low_surrogate(h.st, h.cp)
        ELSE [exc |-> "none", st |-> h.st, v |-> h.cp])

\* Parser::read_string_, the \u branch
read_u_escape(st) ==
    Try(read_u_digits(st), LAMBDA h :
        IF h.cp >= 55296 /\ h.cp <= 56319 THEN read_low_surrogate(h.st, h.cp)
        ELSE IF h.cp >= 56320 /\ h.cp <= 57343 THEN malformed_exception(h.st)
        ELSE [exc |-> "none", st |-> h.st, v |-> h.cp])

\* Parser::read_string_, the branch taken after a backslash
read_escape(st) ==
    Try(read_codepoint(st), LAMBDA r :
        IF ~r.got THEN malformed_exception(st)
        ELSE IF r.cp = Ch.quote \/ r.cp = Ch.backslash \/ r.cp = Ch.slash
        THEN [exc |-> "none", st |-> r.st, v |-> r.cp]
        ELSE IF r.cp = Ch.b THEN [exc |-> "none", st |-> r.st, v |-> 8]
        ELSE IF r.cp = Ch.f THEN [exc |-> "none", st |-> r.st, v |-> 12]
        ELSE IF r.cp = Ch.n THEN [exc |-> "none", st |-> r.st, v |-> 10]
        ELSE IF r.cp = Ch.r THEN [exc |-> "none", st |-> r.st, v |-> 13]
        ELSE IF r.cp = Ch.t THEN [exc |-> "none", st |-> r.st, v |-> 9]
        ELSE IF r.cp = Ch.u THEN read_u_escape(r.st)
        ELSE malformed_exception(r.st))

\* Parser::read_string_, the while (true) loop
RECURSIVE read_string_loop(_, _)
read_string_loop(st, ret) ==
    Try(read_codepoint(st), LAMBDA r :
        IF ~r.got THEN malformed_exception(st)
        ELSE IF r.cp <= 31 THEN malformed_exception(r.st)
        ELSE IF r.cp = Ch.quote THEN [exc |-> "none", st |-> r.st, str |-> ret]
        ELSE Try(IF r.cp = Ch.backslash THEN read_escape(r.st)
                 ELSE [exc |-> "none", st |-> r.st, v |-> r.cp],
                 LAMBDA e : read_string_loop(e.st, ret \o encode_utf8(e.v))))

\* Parser::read_string_
read_string_(st) ==
    Try(expect_codepoints(st, <<Ch.quote>>), LAMBDA r : read_string_loop(r.st, <<>>))

\* Parser::read_string
read_string(st) ==
    Try(read_string_(st), LAMBDA r : Return(r.st, ValueString(r.str, st.m_position)))

RECURSIVE read_value(_, _)

\* what follows a value inside a container: the closing codepoint or a comma
\* and the next turn of the loop
after_element(r, st, close) ==
    IF ~r.got THEN malformed_exception(st)
    ELSE IF r.cp = close THEN [exc |-> "none", st |-> r.st, more |-> FALSE]
    ELSE IF r.cp # Ch.comma THEN malformed_exception(r.st)
    ELSE [exc |-> "none", st |-> r.st, more |-> TRUE]

\* Parser::read_array, the while (true) loop
RECURSIVE read_array_loop(_, _, _)
read_array_loop(st, ret, c) ==
    Try(eat_ws(st), LAMBDA w1 :
    Try(read_value(w1.st, c), LAMBDA v :
    Try(eat_ws(v.st), LAMBDA w2 :
    Try(read_codepoint(w2.st), LAMBDA r :
    Try(after_element(r, w2.st, Ch.rbracket), LAMBDA n :
        IF n.more THEN read_array_loop(n.st, [ret EXCEPT !.m_value = Append(@, v.val)], c)
        ELSE Return(n.st, [ret EXCEPT !.m_value = Append(@, v.val)]))))))

\* the empty container, or its members
read_members(st, p, ret, close, c, Loop(_, _, _)) ==
    IF ~p.got THEN malformed_exception(st)
    ELSE IF p.cp = close THEN Return(advance_codepoint(st, p.cp, p.consumed), ret)
    ELSE Loop(st, ret, c)

\* Parser::read_array
read_array(st, c) ==
    Try(expect_codepoints(st, <<Ch.lbracket>>), LAMBDA r :
    Try(eat_ws(r.st), LAMBDA w :
    Try(pick_codepoint(w.st), LAMBDA p :
        read_members(w.st, p, set_position(new_array, st.m_position), Ch.rbracket, c,
                     read_array_loop))))

\* Parser::read_object, the while (true) loop
RECURSIVE read_object_loop(_, _, _)
read_object_loop(st, ret, c) ==
    Try(eat_ws(st), LAMBDA w1 :
    Try(read_string_(w1.st), LAMBDA k :
    Try(eat_ws(k.st), LAMBDA w2 :
    Try(expect_codepoints(w2.st, <<Ch.colon>>), LAMBDA col :
    Try(eat_ws(col.st), LAMBDA w3 :
    Try(read_value(w3.st, c), LAMBDA v :
    Try(eat_ws(v.st), LAMBDA w4 :
    Try(read_codepoint(w4.st), LAMBDA r :
    Try(after_element(r, w4.st, Ch.rbrace), LAMBDA n :
        IF n.more
        THEN read_object_loop(n.st, [ret EXCEPT !.m_value = map_assign(@, k.str, v.val)], c)
        ELSE Return(n.st, [ret EXCEPT !.m_value = map_assign(@, k.str, v.val)]))))))))))

\* Parser::read_object
read_object(st, c) ==
    Try(expect_codepoints(st, <<Ch.lbrace>>), LAMBDA r :
    Try(eat_ws(r.st), LAMBDA w :
    Try(pick_codepoint(w.st), LAMBDA p :
        read_members(w.st, p, set_position(new_object, st.m_position), Ch.rbrace, c,
                     read_object_loop))))

\* the production read_value selects after peeking one codepoint
read_value_dispatch(st, c) ==
    Try(pick_codepoint(st), LAMBDA p :
        IF ~p.got THEN malformed_exception(st)
        ELSE IF p.cp = Ch.quote THEN read_string(st)
        ELSE IF p.cp = Ch.f THEN read_boolean_false(st)
        ELSE IF p.cp = Ch.t THEN read_boolean_true(st)
        ELSE IF p.cp = Ch.n THEN read_null(st)
        ELSE IF p.cp = Ch.minus \/ IsDigit(p.cp) THEN read_number(st, c)
        ELSE IF p.cp = Ch.lbrace THEN read_object(st, c)
        ELSE IF p.cp = Ch.lbracket THEN read_array(st, c)
        ELSE malformed_exception(st))

\* ScopeDepth::ScopeDepth: ++m_d
ScopeDepthEnter(st) ==
    [st EXCEPT !.m_depth = @ + 1, !.m_depth_seen = @ \cup {st.m_depth + 1}]

\* ScopeDepth::~ScopeDepth, run on return and on unwinding alike: --m_d
ScopeDepthExit(r) ==
    [r EXCEPT !.st.m_depth = @ - 1, !.st.m_depth_seen = @ \cup {r.st.m_depth - 1}]

\* a depth guard that fires one level too late
read_value_late_guard(st, c) ==
    IF st.m_depth > c.m_max_depth THEN Throw("MaximumDepthException", st)
    ELSE ScopeDepthExit(read_value_dispatch(ScopeDepthEnter(st), c))

\* a read_value that takes the level back by hand before it returns, and
\* not when an exception passes through it
read_value_leaking(st, c) ==
    IF st.m_depth = c.m_max_depth THEN Throw("MaximumDepthException", st)
    ELSE With(read_value_dispatch(ScopeDepthEnter(st), c), LAMBDA r :
              IF r.exc = "none" THEN ScopeDepthExit(r) ELSE r)

\* a read_value that counts the containers only: a scalar is read without
\* taking a level
read_value_containers_only(st, c) ==
    With(pick_codepoint(st), LAMBDA p :
         IF p.exc = "none" /\ p.got /\ p.cp # Ch.lbrace /\ p.cp # Ch.lbracket
         THEN read_value_dispatch(st, c)
         ELSE IF st.m_depth = c.m_max_depth THEN Throw("MaximumDepthException", st)
         ELSE ScopeDepthExit(read_value_dispatch(ScopeDepthEnter(st), c)))

\* Parser::read_value
read_value(st, c) ==
    IF st.m_depth = c.m_max_depth THEN Throw("MaximumDepthException", st)
    ELSE ScopeDepthExit(read_value_dispatch(ScopeDepthEnter(st), c))

\* a BOM block that consumes every leading BOM, not just the first
RECURSIVE eat_bom_every(_)
eat_bom_every(st) ==
    Try(pick_codepoint(st), LAMBDA b :
        IF b.got /\ b.cp = 65279 THEN eat_bom_every(advance_codepoint(st, b.cp, b.consumed))
        ELSE [exc |-> "none", st |-> st])

\* Parser::parse, the BOM block
eat_bom(st) ==
    Try(pick_codepoint(st), LAMBDA b :
        [exc |-> "none",
         st |-> IF b.got /\ b.cp = 65279 THEN advance_codepoint(st, b.cp, b.consumed) ELSE st])

\* a parse that returns the first value whatever follows it
end_of_document_unchecked(st, v) == Return(st, v)

\* Parser::parse, the check made after the value and the whitespace after it
end_of_document(st, v) ==
    IF Len(st.m_sv) # 0 THEN malformed_exception(st) ELSE Return(st, v)

\* Parser::parse, on a Parser whose members are st
parse_on(st, input, c) ==
    Try(eat_bom(init(st, input)), LAMBDA b :
    Try(eat_ws(b.st), LAMBDA w1 :
    Try(read_value(w1.st, c), LAMBDA v :
    Try(eat_ws(v.st), LAMBDA w2 : end_of_document(w2.st, v.val)))))

\* Parser().parse(input): the constructor leaves m_sv and m_position empty
\* and m_depth at 0
parse(input, c) == parse_on(ParserState(<<>>, NoPosition, 0), input, c)

(***************************************************************************)
(* The programs that drive the library                                     *)
(*                                                                         *)
(* json, doc and o are the variables of the round-trip tester's main():    *)
(* a Value built with the constructors, the text generated from it (or a   *)
(* text given by the user, as in the file-reading example), and the        *)
(* outcome of parsing that text.  parser holds the members of the one      *)
(* Parser object, cmp the last comparison or accessor call with its        *)
(* operands and result, or the logged outcome of the turn before,          *)
(* libc the behaviour of the C library the program is linked with.         *)
(***************************************************************************)
DefaultMaxDepth == 1024

MaxNodes == 3
MaxIndent == 1
MaxTyped == 3
MaxNest == 3

RECURSIVE NodeCount(_)
RECURSIVE SumNodes(_, _)
SumNodes(vs, i) == IF i > Len(vs) THEN 0 ELSE NodeCount(vs[i]) + SumNodes(vs, i + 1)
NodeCount(v) ==
    CASE v.m_type = "Array" -> 1 + SumNodes(v.m_value, 1)
      [] v.m_type = "Object" -> 1 + SumNodes([i \in DOMAIN v.m_value |-> v.m_value[i].val], 1)
      [] OTHER -> 1

\* the arguments the programs pass to the constructors
UIntSamples == {0, 5, 17, UINT64_MAX}
IntSamples == {INT64_MIN, 0 - 5, 0 - 1, 0, 5}
DoubleSamples ==
    { Dbl(FALSE, 0), Dbl(TRUE, 0), Dbl(FALSE, 5 * Quantum), Dbl(TRUE, 5 * Quantum),
      Dbl(FALSE, 5 * Quantum + Quantum \div 2), Dbl(FALSE, 16 * Quantum),
      Dbl(FALSE, 3), Dbl(FALSE, (UINT64_MAX + 1) * Quantum),
      Dbl(TRUE, 2 * (0 - INT64_MIN) * Quantum) }
StringSamples ==
    { <<>>, <<Ch.a>>, <<Ch.quote, Ch.lf>>, encode_utf8(65279), encode_utf8(128512) }
KeySamples == { <<Ch.b>>, <<Ch.a>>, encode_utf8(65279) }

Scalars ==
    {ValueNull(NoPosition)}
    \cup {ValueBool(b, NoPosition) : b \in BOOLEAN}
    \cup {ValueUInt64(u, NoPosition) : u \in UIntSamples}
    \cup {ValueInt64(i, NoPosition) : i \in IntSamples}
    \cup {ValueDouble(d, NoPosition).value : d \in DoubleSamples}
    \cup {ValueString(str, NoPosition) : str \in StringSamples}

\* the values stored into containers
Elements ==
    { ValueNull(NoPosition), ValueUInt64(5, NoPosition), ValueInt64(0 - 5, NoPosition),
      ValueDouble(Dbl(FALSE, 5 * Quantum + Quantum \div 2), NoPosition).value,
      ValueString(<<Ch.quote, Ch.lf>>, NoPosition) }

Numbers == {v \in Scalars : IsNumericType(v.m_type)}

\* what a conversion of an out-of-range double to an integer may yield
UBCasts == [u : {0, INT64_MAX + 1, UINT64_MAX}, i : {INT64_MIN, INT64_MAX}]

NoDoc == [src |-> "none", indent |-> 0]
Unparsed == [exc |-> "unset"]
Uncompared == [op |-> "unset"]

ParserConfig == [m_max_depth |-> parser.m_max_depth,
                 erange_on_subnormal |-> libc.erange_on_subnormal]

Init ==
    /\ json = ValueNull(NoPosition)
    /\ doc = <<>>
    /\ docKind = NoDoc
    /\ o = Unparsed
    /\ parser = [m_sv |-> <<>>, m_position |-> NoPosition, m_depth |-> 0,
                 m_depth_seen |-> {0}, m_max_depth |-> DefaultMaxDepth]
    /\ cmp = Uncompared
    /\ libc \in [erange_on_subnormal : BOOLEAN]

\* nothing generated, parsed or compared yet, by a default-configured parser
Building ==
    /\ docKind.src = "none" /\ o.exc = "unset" /\ cmp.op = "unset"
    /\ parser.m_max_depth = DefaultMaxDepth
\* json is still Value()
Fresh == json.m_type = "Null" /\ o.exc = "unset" /\ cmp.op = "unset"

\* Value json(...) with one of the constructors, json being Value() until then
Construct(v) ==
    /\ Building /\ Fresh
    /\ json' = v
    /\ UNCHANGED <<doc, docKind, o, parser, cmp, libc>>

ConstructBool == \E b \in BOOLEAN : Construct(ValueBool(b, NoPosition))
ConstructUInt64 == \E u \in UIntSamples : Construct(ValueUInt64(u, NoPosition))
ConstructInt64 == \E i \in IntSamples : Construct(ValueInt64(i, NoPosition))
ConstructDouble ==
    \E d \in DoubleSamples :
        /\ ValueDouble(d, NoPosition).exc = "none"
        /\ Construct(ValueDouble(d, NoPosition).value)
ConstructString == \E str \in StringSamples : Construct(ValueString(str, NoPosition))
ConstructArray == Construct(new_array)
ConstructObject == Construct(new_object)

\* json = Value{ {k1, v1}, {k2, v2}, ... }
InitLists ==
    UNION { { [i \in 1..len |-> Member(ks[i], vs[i])] :
                ks \in [1..len -> {<<Ch.a>>, <<Ch.b>>}],
                vs \in [1..len -> {ValueUInt64(5, NoPosition), ValueNull(NoPosition)}] } :
            len \in 1..(MaxNodes - 1) }

ConstructInitList == \E l \in InitLists : Construct(ValueInitList(l))

\* json.get<Type::Array>().push_back(e)
PushBack ==
    \E e \in Elements :
        /\ Building
        /\ json.m_type = "Array"
        /\ NodeCount(json) < MaxNodes
        /\ json' = [json EXCEPT !.m_value = Append(@, e)]
        /\ UNCHANGED <<doc, docKind, o, parser, cmp, libc>>

\* json[k] = e
IndexAssign ==
    \E k \in KeySamples, e \in Elements :
        /\ Building
        /\ json.m_type = "Object"
        /\ NodeCount(json) < MaxNodes \/ map_count(json.m_value, k) # 0
        /\ json' = [json EXCEPT !.m_value = map_assign(map_index(@, k), k, e)]
        /\ UNCHANGED <<doc, docKind, o, parser, cmp, libc>>

\* outer = Value::new_array(); outer.get<Type::Array>().push_back(json); json = outer
WrapInArray ==
    /\ Building
    /\ NodeCount(json) < MaxNodes
    /\ json' = [new_array EXCEPT !.m_value = <<json>>]
    /\ UNCHANGED <<doc, docKind, o, parser, cmp, libc>>

\* outer = Value::new_object(); outer[k] = json; json = outer
WrapInObject ==
    \E k \in {<<Ch.a>>} :
        /\ Building
        /\ NodeCount(json) < MaxNodes
        /\ json' = [new_object EXCEPT !.m_value = map_assign(map_index(@, k), k, json)]
        /\ UNCHANGED <<doc, docKind, o, parser, cmp, libc>>

\* the codepoints the programs put into strings and keys: the ends of every
\* range escape_string tells apart
CodepointSamples ==
    { 0, 8, 9, 10, 13, 31, 32, 34, 47, 92, 126, 127, 128, 2047, 2048, 65279, 65535,
      65536, 128512, 1114111 }

\* codepoints past U+FFFF: every first half of a surrogate pair with the
\* ends and the middle of the second halves
SupplementarySamples ==
    { 65536 + h * 1024 + l : h \in 0..1023, l \in {0, 1, 512, 1023} }

\* Value json(str) for a std::string holding one codepoint past U+FFFF
ConstructSupplementary ==
    /\ Building /\ Fresh
    /\ \E cp \in SupplementarySamples : Construct(ValueString(encode_utf8(cp), NoPosition))

\* byte sequences that are no UTF-8: a byte that starts nothing, a lone
\* continuation byte, a two-byte sequence cut short
IllFormedSamples == { <<255>>, <<128>>, <<195>> }

\* a std::string holding the bytes core, alone or between other characters
TextSamples(cores) ==
    { pre \o core \o suf : pre \in {<<>>, <<Ch.a>>}, suf \in {<<>>, <<Ch.a>>}, core \in cores }

\* Value json(str) for a std::string of any bytes
ConstructText ==
    \E str \in TextSamples({encode_utf8(cp) : cp \in CodepointSamples} \cup IllFormedSamples) :
        Construct(ValueString(str, NoPosition))

\* outer = Value::new_object(); outer[k] = json; json = outer, for a key of any bytes
WrapUnderKey ==
    \E k \in {<<Ch.a>>, <<Ch.quote>> \o encode_utf8(233), <<Ch.a, 255>>} :
        /\ Building
        /\ NodeCount(json) < MaxNodes
        /\ json' = [new_object EXCEPT !.m_value = map_assign(map_index(@, k), k, json)]
        /\ UNCHANGED <<doc, docKind, o, parser, cmp, libc>>

\* the accessors are called on the Value that was built, any number of times
Accessible == docKind.src = "none" /\ o.exc = "unset" /\ parser.m_max_depth = DefaultMaxDepth

Accessed(r) ==
    /\ Accessible
    /\ cmp' = r
    /\ UNCHANGED <<json, doc, docKind, o, parser, libc>>

\* json.get<dt>()
Get ==
    \E dt \in NativeTypes :
        Accessed([op |-> "get", dt |-> dt, before |-> json, r |-> get(json, dt)])

\* json.get_ptr<dt>()
GetPtr ==
    \E dt \in NativeTypes :
        Accessed([op |-> "get_ptr", dt |-> dt, before |-> json, r |-> get_ptr(json, dt)])

\* std::as_const(json)[key]
IndexConst ==
    \E key \in KeySamples :
        Accessed([op |-> "index_const", key |-> key, before |-> json, r |-> index_const(json, key)])

\* json.contains(key)
Contains ==
    \E key \in KeySamples :
        Accessed([op |-> "contains", key |-> key, before |-> json, r |-> contains(json, key)])

\* json.size()
Size == Accessed([op |-> "size", before |-> json, r |-> size(json)])

\* Value &ref = json[key]
Index ==
    \E key \in KeySamples :
        With(index(json, key), LAMBDA r :
             /\ Accessible
             /\ json' = r.value
             /\ cmp' = [op |-> "index", key |-> key, before |-> json,
                        r |-> IF r.exc = "none" THEN [exc |-> "none", ref |-> r.ref]
                              ELSE [exc |-> r.exc]]
             /\ UNCHANGED <<doc, docKind, o, parser, libc>>)

\* ref = e, for the reference the last json[key] returned
AssignThrough ==
    \E e \in Elements :
        /\ Accessible
        /\ cmp.op = "index" /\ cmp.r.exc = "none"
        /\ json' = [json EXCEPT !.m_value = map_assign(@, cmp.key, e)]
        /\ cmp' = [op |-> "assign", key |-> cmp.key, before |-> json, e |-> e]
        /\ UNCHANGED <<doc, docKind, o, parser, libc>>

\* the Values a program stores into a copy
CopySamples ==
    { ValueUInt64(5, NoPosition), [new_array EXCEPT !.m_value = <<ValueNull(NoPosition)>>] }

\* a and b after "b = a" or "Value b(a)", a being the Value that was built
Copied(r, how) ==
    /\ Accessible /\ cmp.op = "unset"
    /\ cmp' = [op |-> "copy", how |-> how, heap |-> r.heap, a |-> r.a, b |-> r.value]
    /\ UNCHANGED <<json, doc, docKind, o, parser, libc>>

\* Value b(a)
CopyConstruct ==
    With(Store(<<>>, json), LAMBDA a :
         With(Value_copy(a.heap, a.value), LAMBDA r :
              Copied([heap |-> r.heap, a |-> a.value, value |-> r.value], "constructed")))

\* Value b(e); b = a
CopyAssign ==
    \E e \in CopySamples :
        With(Store(<<>>, json), LAMBDA a :
        With(Store(a.heap, e), LAMBDA b :
        With(Value_assign(b.heap, b.value, a.value), LAMBDA r :
             Copied([heap |-> r.heap, a |-> a.value, value |-> r.value], "assigned"))))

\* x = e, x.get<Type::Array>().push_back(e) or x[key] = e, for the Value
\* object x reached by path from the Value object root
Mutation(heap, root, path, kind, key, e) ==
    With(ValueAt(heap, root, path), LAMBDA x :
    With(Store(heap, e), LAMBDA t :
         CASE kind = "assign" ->
                  With(Value_assign(t.heap, x, t.value), LAMBDA r :
                       PutAt(r.heap, root, path, r.value))
           [] kind = "push_back" ->
                  With(Value_copy(t.heap, t.value), LAMBDA r :
                       [heap |-> [r.heap EXCEPT ![x.m_value] = Append(@, r.value)],
                        value |-> root])
           [] kind = "index" ->
                  With(Value_assign(t.heap, ValueNull(NoPosition), t.value), LAMBDA r :
                       [heap |-> [r.heap EXCEPT ![x.m_value] =
                                     map_assign(map_index(@, key), key, r.value)],
                        value |-> root])))

\* which mutation fits the Value object x
Mutable(x, kind) ==
    \/ kind = "assign"
    \/ kind = "push_back" /\ x.m_type = "Array"
    \/ kind = "index" /\ x.m_type = "Object"

\* one of the two Values, or something inside it, is changed: the copy or
\* the original first, then the other one
Mutate ==
    \E side \in {"a", "b"}, kind \in {"assign", "push_back", "index"},
       key \in {<<Ch.a>>, <<Ch.b>>}, e \in CopySamples :
        /\ cmp.op = "copy" \/ (cmp.op = "mutated" /\ cmp.first /\ cmp.side # side)
        /\ \E path \in PathsFrom(cmp.heap, cmp[side]) :
            /\ Mutable(ValueAt(cmp.heap, cmp[side], path), kind)
            /\ kind # "index" => key = <<Ch.a>>
            /\ With(Mutation(cmp.heap, cmp[side], path, kind, key, e), LAMBDA r :
                    cmp' = [op |-> "mutated", first |-> cmp.op = "copy", side |-> side,
                            path |-> path, kind |-> kind, heap |-> r.heap,
                            a |-> IF side = "a" THEN r.value ELSE cmp.a,
                            b |-> IF side = "b" THEN r.value ELSE cmp.b,
                            kept |-> Load(cmp.heap, IF side = "a" THEN cmp.b ELSE cmp.a)])
            /\ UNCHANGED <<json, doc, docKind, o, parser, libc>>

Generated(r, kind) ==
    /\ doc' = r.out
    /\ docKind' = IF r.exc = "none" THEN kind ELSE [src |-> r.exc, indent |-> 0]
    /\ UNCHANGED <<json, o, parser, cmp, libc>>

\* doc = Generator::to_string(json)
GenerateCompact ==
    /\ Building
    /\ Generated(to_string(json), [src |-> "compact", indent |-> 0])

\* doc = Generator::to_string_pretty(json, n)
GeneratePretty ==
    \E n \in 0..MaxIndent :
        /\ Building
        /\ Generated(to_string_pretty(json, n), [src |-> "pretty", indent |-> n])

\* parser.setMaxDepth(n)
SetMaxDepth ==
    \E n \in 0..MaxNest :
        /\ Fresh /\ docKind.src = "none"
        /\ parser' = [parser EXCEPT !.m_max_depth = n]
        /\ UNCHANGED <<json, doc, docKind, o, cmp, libc>>

\* the pieces a user's text is made of
Tokens ==
    { <<Ch.lbracket>>, <<Ch.rbracket>>, <<Ch.lbrace>>, <<Ch.rbrace>>, <<Ch.comma>>,
      <<Ch.space>>, <<Ch.quote, Ch.a, Ch.quote>>, <<Ch.d0>>, <<Ch.d1>>, <<Ch.minus>>,
      <<Ch.x>>, BOM, <<255>> }

\* a text is worth extending while the parser has not rejected it before its end
Extensible(txt) ==
    With(parse(txt, [m_max_depth |-> DefaultMaxDepth, erange_on_subnormal |-> TRUE]),
         LAMBDA r : r.exc = "none" \/ (r.exc = "MalFormedException" /\ r.st.m_sv = <<>>))

\* the user types one more piece of the document
Type ==
    \E tok \in Tokens :
        /\ Fresh
        /\ docKind.src = "none" \/ (docKind.src = "typed" /\ docKind.indent < MaxTyped)
        /\ o.exc = "unset"
        /\ Extensible(doc)
        /\ doc' = doc \o tok
        /\ docKind' = [src |-> "typed", indent |-> docKind.indent + 1]
        /\ UNCHANGED <<json, o, parser, cmp, libc>>

RECURSIVE Repeat(_, _)
Repeat(tok, k) == IF k = 0 THEN <<>> ELSE tok \o Repeat(tok, k - 1)

\* the document made of k nested arrays
NestedArrays(k) == Repeat(<<Ch.lbracket>>, k) \o Repeat(<<Ch.rbracket>>, k)

TypeNestedArrays ==
    \E k \in 1..(MaxNest + 1) :
        /\ Fresh /\ docKind.src = "none"
        /\ doc' = NestedArrays(k)
        /\ docKind' = [src |-> "nested", indent |-> k]
        /\ UNCHANGED <<json, o, parser, cmp, libc>>

\* the text { "k1" : v1 , "k2" : v2 ... } with sp spaces around the separators
RECURSIVE MembersText(_, _, _)
MembersText(ms, i, sp) ==
    IF i > Len(ms) THEN <<>>
    ELSE (IF i > 1 THEN <<Ch.comma>> \o Spaces(sp) ELSE <<>>)
         \o escape_string(ms[i].key).out \o Spaces(sp) \o <<Ch.colon>> \o Spaces(sp)
         \o ms[i].txt \o MembersText(ms, i + 1, sp)

ObjectText(ms, sp) == <<Ch.lbrace>> \o MembersText(ms, 1, sp) \o <<Ch.rbrace>>

\* the member values a user writes, each with the Value it denotes
MemberSamples ==
    { [txt |-> <<Ch.d1>>, val |-> ValueUInt64(1, NoPosition)],
      [txt |-> <<Ch.minus, Ch.d1>>, val |-> ValueInt64(0 - 1, NoPosition)],
      [txt |-> <<Ch.lbracket, Ch.t, Ch.r, Ch.u, Ch.e, Ch.comma, Ch.n, Ch.u, Ch.l, Ch.l,
                 Ch.comma, Ch.quote, Ch.x, Ch.quote, Ch.rbracket>>,
       val |-> [new_array EXCEPT !.m_value =
                   <<ValueBool(TRUE, NoPosition), ValueNull(NoPosition),
                     ValueString(<<Ch.x>>, NoPosition)>>]] }

\* the user writes an object, members in the order and with the keys they choose
TypeObject ==
    \E len \in 1..(MaxNodes - 1), sp \in 0..1 :
        \E ks \in [1..len -> {<<Ch.a>>, <<Ch.b>>}] :
            \E ts \in [1..len -> MemberSamples] :
                LET ms == [i \in 1..len |-> [key |-> ks[i], txt |-> ts[i].txt, val |-> ts[i].val]]
                IN  /\ Fresh /\ docKind.src = "none"
                    /\ doc' = ObjectText(ms, sp)
                    /\ docKind' = [src |-> "object", indent |-> sp, members |-> ms]
                    /\ UNCHANGED <<json, o, parser, cmp, libc>>

\* doubles at and beyond the ends of the range
ExtremeSamples ==
    { DblInf(FALSE), DblInf(TRUE), DblNaN, Dbl(FALSE, MaxQ), Dbl(TRUE, MaxQ), Dbl(FALSE, 1) }

\* try { json = Value(d); } catch (BadValueException &) {}
ConstructExtreme ==
    \E d \in ExtremeSamples :
        With(ValueDouble(d, NoPosition), LAMBDA r :
             /\ Building /\ Fresh
             /\ json' = IF r.exc = "none" THEN r.value ELSE json
             /\ cmp' = [op |-> "construct", arg |-> d, exc |-> r.exc]
             /\ UNCHANGED <<doc, docKind, o, parser, libc>>)

\* the number texts a user writes: small, large and tiny, with and without
\* fraction and exponent
NumberTexts ==
    { m \o t :
        m \in { <<Ch.d0>>, <<Ch.minus, Ch.d0>>, <<Ch.d1>>, <<Ch.d9>>, <<Ch.minus, Ch.d9>>,
                <<Ch.d0 + 7, Ch.d0 + 5>> },
        t \in { <<>>, <<Ch.dot, Ch.d0 + 5>>, <<Ch.e, Ch.d0>>, <<Ch.e, Ch.d0 + 2>>,
                <<Ch.E, Ch.plus, Ch.d0 + 3>>, <<Ch.e, Ch.d9>>, <<Ch.e, Ch.minus, Ch.d1>>,
                <<Ch.e, Ch.minus, Ch.d0 + 5>>, <<Ch.dot, Ch.d0 + 5, Ch.e, Ch.d0 + 3>> } }

\* the user writes a number, alone or in an array
TypeNumber ==
    \E txt \in NumberTexts, inArray \in BOOLEAN :
        /\ Fresh /\ docKind.src = "none"
        /\ doc' = IF inArray THEN <<Ch.lbracket>> \o txt \o <<Ch.rbracket>> ELSE txt
        /\ docKind' = [src |-> "typed", indent |-> IF inArray THEN 3 ELSE 1]
        /\ UNCHANGED <<json, o, parser, cmp, libc>>

\* the pieces of a document a user's text starts and ends with
PrefixSamples ==
    { <<>>, <<Ch.space>>, BOM, <<Ch.lbracket>>, <<Ch.lbracket, Ch.d1, Ch.comma>>,
      <<Ch.lbracket, Ch.d1, Ch.rbracket>>, <<Ch.lbrace>>, <<Ch.lbrace, Ch.quote, Ch.a, Ch.quote>>,
      <<Ch.lbrace, Ch.quote, Ch.a, Ch.quote, Ch.colon>>, <<Ch.quote>>, <<Ch.quote, Ch.a>>,
      <<Ch.quote, Ch.backslash>>, <<Ch.quote, Ch.backslash, Ch.u, Ch.d0, Ch.d0>>,
      <<Ch.lbrace, Ch.quote>>, <<Ch.d1>>, <<Ch.d0>>, <<Ch.minus>>, <<Ch.d1, Ch.dot>>,
      <<Ch.d1, Ch.e>>, <<Ch.t, Ch.r>>, <<Ch.n, Ch.u, Ch.l, Ch.l>>, <<Ch.x>>,
      <<Ch.rbracket>>, <<Ch.d0, Ch.d1>> }
SuffixSamples == { <<>>, <<Ch.quote>>, <<Ch.rbracket>>, <<Ch.quote, Ch.rbrace>> }

\* the user gives a text of any bytes: a piece of a document, then an
\* ill-formed byte sequence, U+00E9 or nothing, then a closing piece
TypeBytes ==
    \E pre \in PrefixSamples, bad \in IllFormedSamples \cup {encode_utf8(233), <<>>},
       suf \in SuffixSamples :
        /\ Fresh /\ docKind.src = "none"
        /\ doc' = pre \o bad \o suf
        /\ docKind' = [src |-> "typed", indent |-> 3]
        /\ UNCHANGED <<json, o, parser, cmp, libc>>

\* texts that look like numbers and are none, and a few more that are
MistypedNumbers ==
    { <<Ch.d0, Ch.d1>>, <<Ch.minus, Ch.d0, Ch.d1, Ch.d0 + 2>>, <<Ch.d0, Ch.d0>>,
      <<Ch.minus>>, <<Ch.minus, Ch.minus, Ch.d1>>, <<Ch.plus, Ch.d1>>, <<Ch.dot, Ch.d0 + 5>>,
      <<Ch.minus, Ch.dot, Ch.d0 + 5>>, <<Ch.d1, Ch.dot>>, <<Ch.d1, Ch.dot, Ch.e, Ch.d1>>,
      <<Ch.d1, Ch.dot, Ch.d0 + 5, Ch.dot, Ch.d0 + 2>>,
      <<Ch.d1, Ch.e>>, <<Ch.d1, Ch.e, Ch.plus>>, <<Ch.d1, Ch.E, Ch.minus>>,
      <<Ch.d1, Ch.e, Ch.e, Ch.d1>>, <<Ch.d1, Ch.e, Ch.d1, Ch.dot, Ch.d0 + 5>>,
      <<Ch.d0, Ch.e>>, <<Ch.d0, Ch.dot>>, <<Ch.d0, Ch.x, Ch.d1>>, <<Ch.d1, Ch.plus, Ch.d1>>,
      <<Ch.d1, Ch.d0>>, <<Ch.d1, Ch.d0, Ch.d0>>, <<Ch.d0, Ch.dot, Ch.d0>>,
      <<Ch.minus, Ch.d0, Ch.dot, Ch.d0, Ch.d0 + 5>>, <<Ch.d0, Ch.e, Ch.d0>>,
      <<Ch.d0, Ch.E, Ch.minus, Ch.d0, Ch.d1>>, <<Ch.d1, Ch.dot, Ch.d0, Ch.e, Ch.plus, Ch.d0, Ch.d1>> }

\* the user writes one of them, alone or in an array
TypeMistypedNumber ==
    \E txt \in MistypedNumbers, inArray \in BOOLEAN :
        /\ Fresh /\ docKind.src = "none"
        /\ doc' = IF inArray THEN <<Ch.lbracket>> \o txt \o <<Ch.rbracket>> ELSE txt
        /\ docKind' = [src |-> "typed", indent |-> IF inArray THEN 3 ELSE 1]
        /\ UNCHANGED <<json, o, parser, cmp, libc>>

\* the integers a user writes: every one the variants hold, the first ones
\* past them and two far past them
IntegerSamples == 0..(UINT64_MAX + 2) \cup {UINT64_MAX * 10, UINT64_MAX * 100 + 7}

\* the user writes an integer in decimal digits, alone or in an array
TypeInteger ==
    /\ Fresh /\ docKind.src = "none"
    /\ \E n \in IntegerSamples, neg \in BOOLEAN, inArray \in BOOLEAN :
        /\ doc' = (IF inArray THEN <<Ch.lbracket>> ELSE <<>>)
                       \o (IF neg THEN <<Ch.minus>> ELSE <<>>) \o DecDigits(n)
                       \o (IF inArray THEN <<Ch.rbracket>> ELSE <<>>)
        /\ docKind' = [src |-> "typed", indent |-> IF inArray THEN 3 ELSE 1,
                       magnitude |-> n, neg |-> neg]
        /\ UNCHANGED <<json, o, parser, cmp, libc>>

\* \uXXXX as the user writes it, in capitals or in small letters
WrittenEscape(v, small) ==
    <<Ch.backslash, Ch.u>>
        \o [i \in 1..4 |-> IF small /\ Hex4(v)[i] >= Ch.A /\ Hex4(v)[i] <= Ch.F
                            THEN Hex4(v)[i] - Ch.A + Ch.a ELSE Hex4(v)[i]]

\* what a user puts between the quotes of a string: first halves and second
\* halves of surrogate pairs, escapes of other codepoints, a character, a
\* short escape, and \u escapes with a digit missing or wrong
EscapeUnits ==
    [k : {"high"}, v : {55296, 55357, 56319}, txt : {<<>>}]
    \cup [k : {"low"}, v : {56320, 56832, 57343}, txt : {<<>>}]
    \cup [k : {"plain"}, v : {65, 55295, 57344}, txt : {<<>>}]
    \cup {[k |-> "high", v |-> 55357, txt |-> <<Ch.a>>],
          [k |-> "low", v |-> 56832, txt |-> <<Ch.a>>],
          [k |-> "text", v |-> Ch.x, txt |-> <<Ch.x>>],
          [k |-> "text", v |-> Ch.lf, txt |-> <<Ch.backslash, Ch.n>>],
          [k |-> "wrong", v |-> 0, txt |-> <<Ch.backslash, Ch.u, Ch.A + 3, Ch.E, Ch.d0, Ch.x>>],
          [k |-> "wrong", v |-> 0, txt |-> <<Ch.backslash, Ch.u, Ch.A + 3, Ch.d0 + 8, Ch.d0 + 3>>]}

UnitText(u) ==
    IF u.k \in {"text", "wrong"} THEN u.txt ELSE WrittenEscape(u.v, u.txt # <<>>)

RECURSIVE UnitsText(_)
UnitsText(us) == IF us = <<>> THEN <<>> ELSE UnitText(Head(us)) \o UnitsText(Tail(us))

\* the user writes a string of one to three of them
TypeEscapes ==
    /\ Fresh /\ docKind.src = "none"
    /\ \E n \in 1..3 : \E us \in [1..n -> EscapeUnits] :
        /\ doc' = <<Ch.quote>> \o UnitsText(us) \o <<Ch.quote>>
        /\ docKind' = [src |-> "typed", indent |-> MaxTyped, units |-> us]
        /\ UNCHANGED <<json, o, parser, cmp, libc>>

\* the beginnings of documents after which bad is no codepoint the grammar
\* allows: inside a literal, where a separator is due, where a key or a value
\* is due, after a backslash, inside a \u escape, inside a string, inside a
\* number
UnexpectedSamples ==
    [pre : { <<Ch.t>>, <<Ch.t, Ch.r, Ch.u>>, <<Ch.f, Ch.a, Ch.l, Ch.s>>, <<Ch.n, Ch.u>>,
             <<Ch.lf, Ch.lbracket, Ch.t, Ch.r>>,
             <<Ch.lbracket, Ch.d1>>, <<Ch.lbracket, Ch.d1, Ch.space>>,
             <<Ch.lbrace, Ch.quote, Ch.a, Ch.quote>>,
             <<Ch.lbrace, Ch.quote, Ch.a, Ch.quote, Ch.colon, Ch.d1>>,
             <<Ch.lbrace>>, <<Ch.lbrace, Ch.quote, Ch.a, Ch.quote, Ch.colon, Ch.d1, Ch.comma>>,
             <<>>, <<Ch.lbracket>>, <<Ch.lbracket, Ch.d1, Ch.comma>>,
             <<Ch.lbrace, Ch.quote, Ch.a, Ch.quote, Ch.colon>>,
             <<Ch.quote, Ch.backslash>>, <<Ch.quote, Ch.backslash, Ch.u, Ch.d0>>,
             <<Ch.minus>>, <<Ch.d1, Ch.dot>>, <<Ch.d1, Ch.e>>, <<Ch.d1, Ch.e, Ch.plus>>,
             <<Ch.lbracket, Ch.minus>> },
     bad : { <<Ch.x>>, encode_utf8(233) }]
    \cup [pre : { <<Ch.quote>>, <<Ch.quote, Ch.a>>, <<Ch.lbrace, Ch.quote, Ch.a>> },
          bad : { <<0>>, <<Ch.tab>>, <<Ch.lf>>, <<31>> }]

\* the user's text goes wrong at one codepoint; what follows it may be
\* anything
TypeUnexpected ==
    \E u \in UnexpectedSamples, suf \in {<<>>, <<Ch.d0, Ch.d0, Ch.quote>>} :
        /\ Fresh /\ docKind.src = "none"
        /\ doc' = u.pre \o u.bad \o suf
        /\ docKind' = [src |-> "typed", indent |-> MaxTyped, at |-> Len(u.pre) + 1]
        /\ UNCHANGED <<json, o, parser, cmp, libc>>

\* o = parser.parse(doc); doc is a text generated or typed, or still empty
Parse ==
    /\ docKind.src \in {"compact", "pretty", "typed", "nested", "object"}
       \/ (docKind.src = "none" /\ Fresh)
    /\ o.exc = "unset"
    /\ With(parse_on(ParserState(parser.m_sv, parser.m_position, parser.m_depth),
                     doc, ParserConfig), LAMBDA r :
            /\ o' = IF r.exc = "none" THEN [exc |-> "none", val |-> r.val]
                    ELSE [exc |-> r.exc, errpos |-> r.errpos]
            /\ parser' = [parser EXCEPT !.m_sv = r.st.m_sv,
                                        !.m_position = r.st.m_position,
                                        !.m_depth = r.st.m_depth,
                                        !.m_depth_seen = r.st.m_depth_seen])
    /\ UNCHANGED <<json, doc, docKind, cmp, libc>>

\* short texts of every outcome: values, syntax errors in the middle and at
\* the end, an ill-formed byte, a number out of range
ShortTexts ==
    { <<>>, <<Ch.d1>>, <<Ch.lbracket, Ch.d1, Ch.rbracket>>, <<Ch.d0, Ch.space, Ch.d1>>,
      <<Ch.quote, 255>>, <<Ch.space, Ch.lf, Ch.quote, Ch.a, Ch.quote>>,
      BOM \o <<Ch.lbrace, Ch.rbrace>>, <<Ch.d1, Ch.e, Ch.d9>>,
      <<Ch.lbrace, Ch.quote, Ch.a, Ch.quote, Ch.colon, Ch.t, Ch.r, Ch.u>>,
      NestedArrays(2), NestedArrays(MaxNest + 1) }

\* the next turn of the tester's loop, on the same Parser: the outcome of
\* the turn before is logged and a new text is taken
NextRound ==
    \E txt \in ShortTexts :
        /\ docKind.src \in {"none", "typed"}
        /\ o.exc # "unset" \/ docKind.src = "none"
        /\ doc' = txt
        /\ docKind' = [src |-> "typed", indent |-> MaxTyped]
        /\ o' = Unparsed
        /\ cmp' = IF o.exc = "unset" THEN cmp
                  ELSE [op |-> "parsed", exc |-> o.exc, m_max_depth |-> parser.m_max_depth]
        /\ UNCHANGED <<json, parser, libc>>

\* json = parser.parse(doc), as the file-reading example keeps the parsed document
Adopt ==
    /\ docKind.src = "object"
    /\ o.exc = "none"
    /\ parser.m_max_depth = DefaultMaxDepth
    /\ json' = o.val
    /\ doc' = <<>>
    /\ docKind' = NoDoc
    /\ o' = Unparsed
    /\ UNCHANGED <<parser, cmp, libc>>

\* cmp = (a == b) for two numbers
CompareNumbers ==
    \E a \in Numbers, b \in Numbers, ub \in UBCasts :
        /\ Fresh /\ docKind.src = "none" /\ parser.m_max_depth = DefaultMaxDepth
        /\ cmp' = [op |-> "==", a |-> a, b |-> b, eq |-> ValueEq(a, b, ub)]
        /\ UNCHANGED <<json, doc, docKind, o, parser, libc>>

\* the Values the programs compare three at a time: numbers of the three
\* variants around 0, around 5 and around the first integer a double cannot
\* hold, a Null, a String, and numbers inside an Array and inside an Object
EqualityScalars ==
    { ValueNull(NoPosition), ValueString(<<Ch.a>>, NoPosition),
      ValueUInt64(0, NoPosition), ValueInt64(0, NoPosition),
      ValueDouble(Dbl(FALSE, 0), NoPosition).value, ValueDouble(Dbl(TRUE, 0), NoPosition).value,
      ValueUInt64(5, NoPosition), ValueInt64(5, NoPosition), ValueInt64(0 - 5, NoPosition),
      ValueDouble(Dbl(FALSE, 5 * Quantum), NoPosition).value,
      ValueDouble(Dbl(TRUE, 5 * Quantum), NoPosition).value,
      ValueDouble(Dbl(FALSE, 5 * Quantum + Quantum \div 2), NoPosition).value,
      ValueUInt64(Pow(2, DBL_MANT_DIG), NoPosition),
      ValueUInt64(Pow(2, DBL_MANT_DIG) + 1, NoPosition),
      ValueDouble(Dbl(FALSE, Pow(2, DBL_MANT_DIG) * Quantum), NoPosition).value }
EqualitySamples ==
    EqualityScalars
    \cup { [new_array EXCEPT !.m_value = <<v>>] :
              v \in {x \in EqualityScalars : x.m_type \in {"Int64", "Double"}} }
    \cup { [new_object EXCEPT !.m_value = <<Member(<<Ch.a>>, v)>>] :
              v \in {x \in EqualityScalars : x.m_type = "UInt64"} \cup
                    {ValueDouble(Dbl(FALSE, Pow(2, DBL_MANT_DIG) * Quantum), NoPosition).value} }

\* a == a, a == b, b == a, b == c, a == c and a != b for three Values
CompareThree ==
    /\ Fresh /\ docKind.src = "none" /\ parser.m_max_depth = DefaultMaxDepth
    /\ \E a \in EqualitySamples, b \in EqualitySamples, c \in EqualitySamples, ub \in UBCasts :
           cmp' = [op |-> "three", a |-> a, b |-> b, c |-> c,
                   aa |-> ValueEq(a, a, ub), ab |-> ValueEq(a, b, ub),
                   ba |-> ValueEq(b, a, ub), bc |-> ValueEq(b, c, ub),
                   ac |-> ValueEq(a, c, ub), ne |-> ValueNe(a, b, ub)]
    /\ UNCHANGED <<json, doc, docKind, o, parser, libc>>

\* if (json != o) ... ; if (o != json) ...   of the round-trip tester
CompareRoundTrip ==
    \E ub \in UBCasts :
        /\ docKind.src \in {"compact", "pretty"}
        /\ o.exc = "none"
        /\ cmp' = [op |-> "roundtrip", a |-> json, b |-> o.val,
                   eq |-> ~ValueNe(json, o.val, ub) /\ ~ValueNe(o.val, json, ub)]
        /\ UNCHANGED <<json, doc, docKind, o, parser, libc>>

Next ==
    \/ ConstructBool \/ ConstructUInt64 \/ ConstructInt64
    \/ ConstructDouble \/ ConstructString \/ ConstructArray \/ ConstructObject
    \/ ConstructInitList
    \/ PushBack \/ IndexAssign \/ WrapInArray \/ WrapInObject
    \/ GenerateCompact \/ GeneratePretty
    \/ SetMaxDepth \/ Type \/ TypeNestedArrays \/ TypeObject
    \/ Parse \/ Adopt \/ CompareNumbers \/ CompareRoundTrip
    \/ ConstructText \/ WrapUnderKey
    \/ Get \/ GetPtr \/ IndexConst \/ Contains \/ Size \/ Index \/ AssignThrough
    \/ TypeBytes \/ ConstructExtreme \/ TypeNumber \/ NextRound
    \/ CopyConstruct \/ CopyAssign \/ Mutate
    \/ TypeUnexpected \/ TypeMistypedNumber \/ TypeInteger
    \/ ConstructSupplementary \/ TypeEscapes \/ CompareThree

Spec == Init /\ [][Next]_vars

\* the round-trip tester: build a value, generate, parse, compare
NextValue ==
    \/ ConstructBool \/ ConstructUInt64 \/ ConstructInt64
    \/ ConstructDouble \/ ConstructString \/ ConstructArray \/ ConstructObject
    \/ ConstructInitList
    \/ PushBack \/ IndexAssign \/ WrapInArray \/ WrapInObject
    \/ GenerateCompact \/ GeneratePretty
    \/ Parse \/ CompareRoundTrip

SpecValue == Init /\ [][NextValue]_vars

\* a program that parses texts, keeps what it parsed and writes it back
NextText ==
    \/ SetMaxDepth \/ Type \/ TypeNestedArrays \/ TypeObject
    \/ Parse \/ Adopt
    \/ ConstructUInt64 \/ ConstructInt64 \/ ConstructObject \/ ConstructInitList
    \/ IndexAssign
    \/ GenerateCompact

SpecText == Init /\ [][NextText]_vars

\* a program that compares numbers
NextNumber == CompareNumbers

SpecNumber == Init /\ [][NextNumber]_vars

\* a program that builds a document and writes it, as the create example
NextGenerate ==
    \/ ConstructBool \/ ConstructUInt64 \/ ConstructInt64 \/ ConstructDouble
    \/ ConstructText \/ ConstructArray \/ ConstructObject \/ ConstructInitList
    \/ PushBack \/ WrapInArray \/ WrapUnderKey
    \/ GenerateCompact \/ GeneratePretty

SpecGenerate == Init /\ [][NextGenerate]_vars

\* a program that builds a Value and reads it through the accessors
NextAccess ==
    \/ ConstructBool \/ ConstructUInt64 \/ ConstructInt64 \/ ConstructDouble
    \/ ConstructString \/ ConstructArray \/ ConstructObject \/ ConstructInitList
    \/ PushBack \/ IndexAssign
    \/ Get \/ GetPtr \/ IndexConst \/ Contains \/ Size \/ Index \/ AssignThrough

SpecAccess == Init /\ [][NextAccess]_vars

\* a program that parses texts of any bytes
NextBytes == SetMaxDepth \/ TypeBytes \/ Parse

SpecBytes == Init /\ [][NextBytes]_vars

\* a program that makes doubles, from arguments and from texts
NextDouble == ConstructDouble \/ ConstructExtreme \/ TypeNumber \/ Parse

SpecDouble == Init /\ [][NextDouble]_vars

\* the tester's loop: one Parser, one text after the other
NextReuse == SetMaxDepth \/ NextRound \/ Parse

SpecReuse == Init /\ [][NextReuse]_vars

\* a program that copies the Value it built and goes on changing both
NextCopy ==
    \/ ConstructUInt64 \/ ConstructString \/ ConstructArray \/ ConstructObject
    \/ ConstructInitList \/ PushBack \/ WrapInArray \/ WrapInObject
    \/ CopyConstruct \/ CopyAssign \/ Mutate

SpecCopy == Init /\ [][NextCopy]_vars

\* a program that parses texts with a mistake in them and reports where
NextUnexpected == TypeUnexpected \/ Parse

SpecUnexpected == Init /\ [][NextUnexpected]_vars

\* a program that parses what the user wrote where a number belongs
NextNumberText == TypeNumber \/ TypeMistypedNumber \/ Parse

SpecNumberText == Init /\ [][NextNumberText]_vars

\* a program that parses an integer
NextInteger == TypeInteger \/ Parse

SpecInteger == Init /\ [][NextInteger]_vars

\* a program that writes a codepoint past U+FFFF and reads it back
NextSurrogate == ConstructSupplementary \/ GenerateCompact \/ Parse

SpecSurrogate == Init /\ [][NextSurrogate]_vars

\* a program that parses a string with \u escapes
NextEscapes == TypeEscapes \/ Parse

SpecEscapes == Init /\ [][NextEscapes]_vars

\* a program that compares Values three at a time
NextEquality == CompareThree

SpecEquality == Init /\ [][NextEquality]_vars

(***************************************************************************)
(* Properties                                                              *)
(***************************************************************************)
\* a == b whatever an out-of-range conversion yields
SameValue(a, b) == \A ub \in UBCasts : ValueEq(a, b, ub)

StartsWithBOM(txt) == Len(txt) >= 3 /\ SubSeq(txt, 1, 3) = BOM
StripBOM(txt) == IF StartsWithBOM(txt) THEN SubSeq(txt, 4, Len(txt)) ELSE txt
HasBOM(txt) == \E i \in 1..(Len(txt) - 2) : SubSeq(txt, i, i + 2) = BOM
IsWsByte(b) == b \in {Ch.space, Ch.tab, Ch.cr, Ch.lf}
AllWs(txt) == \A i \in DOMAIN txt : IsWsByte(txt[i])

\* ---- C1
\* C1 (as stated): whenever the text generated from json, compact or pretty,
\* has been parsed by the default-configured parser, the parse succeeded and
\* the parsed value equals json.
C1_RoundTrip ==
    (docKind.src \in {"compact", "pretty"} /\ o.exc # "unset")
        => (o.exc = "none" /\ SameValue(o.val, json))

\* ---- C2
DoubleAsInteger(d) == (IF d.neg THEN 0 - 1 ELSE 1) * (d.q \div Quantum)
ExactlyEqual(d, i) == d.cls = "fin" /\ d.q % Quantum = 0 /\ DoubleAsInteger(d) = i
IsIntegerType(t) == t \in {"Int64", "UInt64"}

\* C2 (as stated): a Double and an integer compare equal exactly when the
\* double is integral and denotes the same mathematical integer.
C2_ExactMixedEquality ==
    cmp.op = "==" =>
        /\ (cmp.a.m_type = "Double" /\ IsIntegerType(cmp.b.m_type))
              => (cmp.eq <=> ExactlyEqual(cmp.a.m_value, cmp.b.m_value))
        /\ (cmp.b.m_type = "Double" /\ IsIntegerType(cmp.a.m_type))
              => (cmp.eq <=> ExactlyEqual(cmp.b.m_value, cmp.a.m_value))

\* ---- C3
RECURSIVE SkipWs(_)
SkipWs(txt) == IF txt # <<>> /\ IsWsByte(Head(txt)) THEN SkipWs(Tail(txt)) ELSE txt
\* the text from its first significant byte on
SignificantText(txt) == SkipWs(StripBOM(txt))

RECURSIVE EveryInt64(_, _)
\* every Int64 inside v has a payload below lim
EveryInt64(v, lim) ==
    CASE v.m_type = "Int64" -> v.m_value < lim
      [] v.m_type = "Array" -> \A i \in DOMAIN v.m_value : EveryInt64(v.m_value[i], lim)
      [] v.m_type = "Object" -> \A i \in DOMAIN v.m_value : EveryInt64(v.m_value[i].val, lim)
      [] OTHER -> TRUE

C4_DepthCeiling ==
    (docKind.src = "nested" /\ o.exc # "unset") =>
        IF docKind.indent <= parser.m_max_depth
        THEN o.exc = "none"
        ELSE o.exc = "MaximumDepthException"

C4_OneTooDeep ==
    /\ docKind.src = "nested"
    /\ parser.m_max_depth = 3
    /\ docKind.indent = 4
    /\ o.exc = "MaximumDepthException"

\* ---- C5
\* a < b in the byte-lexicographic order
BytesLess(a, b) ==
    \E i \in 1..Len(b) :
        /\ \A j \in 1..(i - 1) : j <= Len(a) /\ a[j] = b[j]
        /\ i > Len(a) \/ a[i] < b[i]

KeysOf(v) == {v.m_value[i].key : i \in DOMAIN v.m_value}
\* the keys of K, each once, in strictly increasing order
Ascending(K) ==
    CHOOSE ks \in [1..Cardinality(K) -> K] :
        \A i \in 1..(Cardinality(K) - 1) : BytesLess(ks[i], ks[i + 1])
ValueOfKey(v, k) == v.m_value[CHOOSE i \in DOMAIN v.m_value : v.m_value[i].key = k].val

RECURSIVE MembersInOrder(_, _, _)
MembersInOrder(v, ks, i) ==
    IF i > Len(ks) THEN <<>>
    ELSE (IF i > 1 THEN <<Ch.comma, Ch.space>> ELSE <<>>)
         \o escape_string(ks[i]).out \o <<Ch.colon, Ch.space>>
         \o to_string(ValueOfKey(v, ks[i])).out
         \o MembersInOrder(v, ks, i + 1)

\* C5: the compact text of an Object lists every key exactly once, in
\* strictly increasing byte order, however the members were inserted.
C5_SortedKeyOutput ==
    (docKind.src = "compact" /\ json.m_type = "Object") =>
        /\ Len(json.m_value) = Cardinality(KeysOf(json))
        /\ doc = <<Ch.lbrace>> \o MembersInOrder(json, Ascending(KeysOf(json)), 1)
                 \o <<Ch.rbrace>>

\* {"a": 1, "b": [true, null, "x"]} written from a parsed document
C5_ParsedThenWritten ==
    /\ docKind.src = "compact"
    /\ json.m_type = "Object"
    /\ json.m_position # NoPosition
    /\ doc = <<Ch.lbrace, Ch.quote, Ch.a, Ch.quote, Ch.colon, Ch.space, Ch.d1, Ch.comma,
               Ch.space, Ch.quote, Ch.b, Ch.quote, Ch.colon, Ch.space, Ch.lbracket,
               Ch.t, Ch.r, Ch.u, Ch.e, Ch.comma, Ch.space, Ch.n, Ch.u, Ch.l, Ch.l,
               Ch.comma, Ch.space, Ch.quote, Ch.x, Ch.quote, Ch.rbracket, Ch.rbrace>>

\* ---- C6
\* C6 (as stated): the compact text of what is parsed from a pretty text of
\* json is the compact text of json.
C6_PrettyIdempotence ==
    (docKind.src = "pretty" /\ o.exc # "unset")
        => (o.exc = "none" /\ to_string(o.val).out = to_string(json).out)

\* ---- C7
\* C7: an Int64 a and a UInt64 b are equal exactly when a >= 0 and a = b.
C7_SignedUnsignedEquality ==
    cmp.op = "==" =>
        /\ (cmp.a.m_type = "Int64" /\ cmp.b.m_type = "UInt64")
              => (cmp.eq <=> (cmp.a.m_value >= 0 /\ cmp.a.m_value = cmp.b.m_value))
        /\ (cmp.a.m_type = "UInt64" /\ cmp.b.m_type = "Int64")
              => (cmp.eq <=> (cmp.b.m_value >= 0 /\ cmp.b.m_value = cmp.a.m_value))

C7_NoWrapAround ==
    /\ cmp.op = "=="
    /\ cmp.a.m_type = "Int64" /\ cmp.a.m_value = 0 - 1
    /\ cmp.b.m_type = "UInt64" /\ cmp.b.m_value = UINT64_MAX
    /\ ~cmp.eq

\* ---- C8
\* the document p is the number 0 or -0, which no digit can follow
LoneZero(p) == SignificantText(p) \in {<<Ch.d0>>, <<Ch.minus, Ch.d0>>}
\* byte b written after p goes on with the number p ends with
NumberGoesOn(p, b) ==
    /\ IsDigit(p[Len(p)])
    /\ b \in {Ch.dot, Ch.e, Ch.E} \/ (IsDigit(b) /\ ~LoneZero(p))

\* every way of cutting doc into a complete document and a rest that starts
\* with a byte which is neither whitespace nor more of the last number has
\* made the parse fail the way Fails(rest) tells
RestRejected(Fails(_)) ==
    \A i \in 1..(Len(doc) - 1) :
        (/\ parse(SubSeq(doc, 1, i), ParserConfig).exc = "none"
         /\ ~IsWsByte(doc[i + 1])
         /\ ~NumberGoesOn(SubSeq(doc, 1, i), doc[i + 1]))
            => o.exc = Fails(SubSeq(doc, i + 1, Len(doc)))

\* C8 (as stated): bytes left after the one top-level value, and an empty or
\* whitespace-only input, make parse fail with MalFormedException.
C8_AlwaysSyntaxError ==
    o.exc # "unset" =>
        /\ docKind.src = "typed" => RestRejected(LAMBDA rest : "MalFormedException")
        /\ AllWs(StripBOM(doc)) => o.exc = "MalFormedException"

\* C8 (amended): a successful parse has consumed the whole input.  When a
\* byte remains after the value and its trailing whitespace, parse fails:
\* with MalFormedException if the remaining bytes start with a well-formed
\* UTF-8 sequence, with UTF8Exception if they do not.  Empty or
\* whitespace-only input fails with MalFormedException when the maximum
\* depth is at least 1, and with MaximumDepthException when it is 0.
C8_SingleTopLevelValue ==
    o.exc # "unset" =>
        /\ o.exc = "none" => parser.m_sv = <<>>
        /\ docKind.src = "typed" =>
              RestRejected(LAMBDA rest : IF decode_one_utf8(rest).ok
                                         THEN "MalFormedException" ELSE "UTF8Exception")
        /\ AllWs(StripBOM(doc)) =>
              o.exc = IF parser.m_max_depth >= 1 THEN "MalFormedException"
                      ELSE "MaximumDepthException"

\* {}x
C8_ByteAfterObject ==
    /\ doc = <<Ch.lbrace, Ch.rbrace, Ch.x>>
    /\ o.exc = "MalFormedException"

\* ---- C9
SameOutcome(r1, r2) == r1.exc = r2.exc /\ (r1.exc = "none" => SameValue(r1.val, r2.val))

\* C9: a text t that does not start with U+FEFF parses the same with a
\* U+FEFF put before it; a U+FEFF anywhere after the first codepoint of a
\* document is not skipped; generated texts contain no U+FEFF.
C9_BOMTolerance ==
    /\ (o.exc # "unset" /\ StartsWithBOM(doc) /\ ~StartsWithBOM(StripBOM(doc)))
          => SameOutcome(o, parse(StripBOM(doc), ParserConfig))
    /\ (o.exc # "unset" /\ docKind.src = "typed" /\ HasBOM(StripBOM(doc)))
          => o.exc # "none"
    /\ docKind.src \in {"compact", "pretty"} => ~HasBOM(doc)

\* U+FEFF then {}
C9_BOMThenObject ==
    /\ doc = BOM \o <<Ch.lbrace, Ch.rbrace>>
    /\ o.exc = "none"
    /\ o.val.m_type = "Object"

\* ---- C10
\* m holds one member per key of the list l, with the value l gives last
LastOccurrenceWins(l, m) ==
    /\ Len(m) = Cardinality({l[i].key : i \in DOMAIN l})
    /\ \A i \in DOMAIN l :
          (\A j \in (i + 1)..Len(l) : l[j].key # l[i].key)
              => \E n \in DOMAIN m : m[n].key = l[i].key /\ SameValue(m[n].val, l[i].val)

\* C10: an object text, with or without repeated keys, parses to an Object
\* with one member per key holding the value of the key's last occurrence,
\* and so does a Value built from an initializer list.
C10_DuplicateKeys ==
    /\ []((docKind.src = "object" /\ o.exc # "unset" /\ parser.m_max_depth >= 3)
            => /\ o.exc = "none"
               /\ o.val.m_type = "Object"
               /\ LastOccurrenceWins(docKind.members, o.val.m_value))
    /\ [][(json.m_type = "Null" /\ json'.m_type = "Object")
            => \A l \in InitLists :
                  SameValue(json', ValueInitList(l)) => LastOccurrenceWins(l, json'.m_value)]_vars

C10_RepeatedKeyParsed ==
    /\ docKind.src = "object"
    /\ Len(docKind.members) = 2
    /\ docKind.members[1].key = docKind.members[2].key
    /\ o.exc = "none"
    /\ Len(o.val.m_value) = 1

\* the bytes are a sequence of codepoints the UTF-8 codec accepts
RECURSIVE WellFormed(_)
WellFormed(bytes) ==
    IF bytes = <<>> THEN TRUE
    ELSE With(decode_one_utf8(bytes), LAMBDA r :
              r.ok /\ WellFormed(SubSeq(bytes, r.consumed + 1, Len(bytes))))

\* every string and every key of the tree is well-formed
RECURSIVE AllWellFormed(_)
AllWellFormed(v) ==
    CASE v.m_type = "String" -> WellFormed(v.m_value)
      [] v.m_type = "Array" -> \A i \in DOMAIN v.m_value : AllWellFormed(v.m_value[i])
      [] v.m_type = "Object" ->
            \A i \in DOMAIN v.m_value :
                WellFormed(v.m_value[i].key) /\ AllWellFormed(v.m_value[i].val)
      [] OTHER -> TRUE

\* the line breaks of the pretty layout: one after the opening bracket, one
\* before the closing one and one after each comma, for each container that is
\* not empty
RECURSIVE LayoutNewlines(_)
RECURSIVE SumNewlines(_, _)
SumNewlines(vs, i) == IF i > Len(vs) THEN 0 ELSE LayoutNewlines(vs[i]) + SumNewlines(vs, i + 1)
LayoutNewlines(v) ==
    CASE v.m_type = "Array" /\ Len(v.m_value) > 0 ->
            Len(v.m_value) + 1 + SumNewlines(v.m_value, 1)
      [] v.m_type = "Object" /\ Len(v.m_value) > 0 ->
            Len(v.m_value) + 1 + SumNewlines([i \in DOMAIN v.m_value |-> v.m_value[i].val], 1)
      [] OTHER -> 0

CountByte(txt, b) == Cardinality({i \in DOMAIN txt : txt[i] = b})

\* C11: for every Value whose strings and keys are valid UTF-8, to_string and
\* to_string_pretty return a text, every byte of it is below 0x80, the compact
\* text holds no byte below 0x20, and the bytes below 0x20 of the pretty text
\* are exactly the line feeds of the layout.
C11_AsciiOnlyOutput ==
    docKind.src # "none" /\ AllWellFormed(json) =>
        /\ docKind.src \in {"compact", "pretty"}
        /\ \A i \in DOMAIN doc : doc[i] < 128 /\ (doc[i] < 32 => doc[i] = Ch.lf)
        /\ CountByte(doc, Ch.lf) = IF docKind.src = "pretty" THEN LayoutNewlines(json) ELSE 0

\* a pretty text of an object whose key holds U+00E9 and whose member is the
\* string made of a line feed
C11_EscapedInsideLayout ==
    /\ docKind.src = "pretty"
    /\ json.m_type = "Object" /\ Len(json.m_value) = 1
    /\ json.m_value[1].key = <<Ch.quote>> \o encode_utf8(233)
    /\ json.m_value[1].val.m_type = "String"
    /\ json.m_value[1].val.m_value = <<Ch.lf>>
    /\ CountByte(doc, Ch.lf) = 2

\* the value of an uppercase hexadecimal digit, -1 for any other byte
HexDigitValue(b) ==
    IF b >= Ch.d0 /\ b <= Ch.d9 THEN b - Ch.d0
    ELSE IF b >= Ch.A /\ b <= Ch.F THEN b - Ch.A + 10
    ELSE 0 - 1

\* e[from..from+5] is a backslash, 'u' and the four uppercase digits of v
IsUEscape(e, from, v) ==
    /\ Len(e) >= from + 5
    /\ e[from] = Ch.backslash /\ e[from + 1] = Ch.u
    /\ \A i \in 2..5 : HexDigitValue(e[from + i]) >= 0
    /\ v = HexDigitValue(e[from + 2]) * 4096 + HexDigitValue(e[from + 3]) * 256
           + HexDigitValue(e[from + 4]) * 16 + HexDigitValue(e[from + 5])

\* e is what the escaping policy prescribes for codepoint c
FollowsPolicy(c, e) ==
    IF c = Ch.quote THEN e = <<Ch.backslash, Ch.quote>>
    ELSE IF c = Ch.backslash THEN e = <<Ch.backslash, Ch.backslash>>
    ELSE IF c = Ch.lf THEN e = <<Ch.backslash, Ch.n>>
    ELSE IF c = Ch.cr THEN e = <<Ch.backslash, Ch.r>>
    ELSE IF c = Ch.tab THEN e = <<Ch.backslash, Ch.t>>
    ELSE IF c < 32 \/ (c >= 127 /\ c <= 65535) THEN Len(e) = 6 /\ IsUEscape(e, 1, c)
    ELSE IF c >= 65536
    THEN /\ Len(e) = 12
         /\ \E hi \in 55296..56319, lo \in {56320 + (c % 1024)} :
                /\ IsUEscape(e, 1, hi) /\ IsUEscape(e, 7, lo)
                /\ c = 65536 + (hi - 55296) * 1024 + (lo - 56320)
    ELSE e = <<c>>

C13_WrongVariantAccess ==
    /\ cmp.op = "get" =>
            /\ json = cmp.before
            /\ IF cmp.dt = cmp.before.m_type
               THEN cmp.r.exc = "none" /\ cmp.r.ref = cmp.before.m_value
               ELSE cmp.r.exc = "std::bad_any_cast"
    /\ cmp.op = "get_ptr" =>
            /\ json = cmp.before
            /\ IF cmp.dt = cmp.before.m_type
               THEN ~cmp.r.null /\ cmp.r.ref = cmp.before.m_value
               ELSE cmp.r.null
    /\ cmp.op \in {"index_const", "index", "contains"} /\ cmp.before.m_type # "Object" =>
            cmp.r.exc = "std::bad_any_cast" /\ json = cmp.before
    /\ cmp.op = "size" /\ cmp.before.m_type \notin {"String", "Array", "Object"} =>
            cmp.r.exc = "std::bad_any_cast" /\ json = cmp.before

\* get<Type::UInt64>() was called on a String
C13_StringReadAsNumber ==
    /\ cmp.op = "get" /\ cmp.dt = "UInt64"
    /\ json.m_type = "String" /\ json.m_value = <<Ch.a>>
    /\ cmp.r.exc = "std::bad_any_cast"

\* the Object v has a member under key
HasMember(v, key) == \E i \in DOMAIN v.m_value : v.m_value[i].key = key

\* C14: on an Object, the const operator[](key) returns the member stored
\* under key when contains(key) is true and fails with std::out_of_range when
\* it is false; contains(key) is true exactly when a member is stored under
\* key; neither call changes the Object.
C14_ReadOnlyKeyedAccess ==
    /\ cmp.op = "index_const" /\ cmp.before.m_type = "Object" =>
            /\ json = cmp.before
            /\ IF contains(cmp.before, cmp.key).ret
               THEN /\ cmp.r.exc = "none"
                    /\ \E i \in DOMAIN cmp.before.m_value :
                           /\ cmp.before.m_value[i].key = cmp.key
                           /\ cmp.r.ref = cmp.before.m_value[i].val
               ELSE cmp.r.exc = "std::out_of_range"
    /\ cmp.op = "contains" /\ cmp.before.m_type = "Object" =>
            /\ json = cmp.before
            /\ cmp.r.exc = "none"
            /\ cmp.r.ret = HasMember(cmp.before, cmp.key)

\* an Object holding only "a" was read under "b"
C14_MissingKeyRead ==
    /\ cmp.op = "index_const" /\ cmp.key = <<Ch.b>>
    /\ json.m_type = "Object" /\ Len(json.m_value) = 1 /\ json.m_value[1].key = <<Ch.a>>
    /\ cmp.r.exc = "std::out_of_range"

\* the same variant, payload and position
Identical(a, b) ==
    a.m_type = b.m_type /\ a.m_position = b.m_position /\ a.m_value = b.m_value

\* every member of the Object v except the one under key is a member of w
OthersKept(v, w, key) ==
    \A i \in DOMAIN v.m_value :
        v.m_value[i].key # key =>
            \E j \in DOMAIN w.m_value :
                /\ w.m_value[j].key = v.m_value[i].key
                /\ Identical(w.m_value[j].val, v.m_value[i].val)

RECURSIVE GoodPrefix(_)
GoodPrefix(bytes) ==
    IF bytes = <<>> THEN <<>>
    ELSE With(decode_one_utf8(bytes), LAMBDA r :
              IF ~r.ok THEN <<>>
              ELSE SubSeq(bytes, 1, r.consumed)
                   \o GoodPrefix(SubSeq(bytes, r.consumed + 1, Len(bytes))))

\* C16: parse never returns a Value for an input holding a byte sequence the
\* codec rejects.  It fails with UTF8Exception, the parser standing at the
\* rejected bytes, unless it fails with the syntax or depth error it raises
\* at the same position on the well-formed bytes before them alone; when the
\* well-formed bytes alone are a document, the failure is UTF8Exception.
\* UTF8Exception is raised on no other input.
C16_IllFormedInputRejected ==
    o.exc # "unset" =>
        /\ ~WellFormed(doc) =>
              /\ o.exc # "none"
              /\ With(parse(GoodPrefix(doc), ParserConfig), LAMBDA g :
                      /\ g.exc = "none" => o.exc = "UTF8Exception"
                      /\ o.exc # "UTF8Exception" => g.exc = o.exc /\ g.errpos = o.errpos)
        /\ o.exc = "UTF8Exception" =>
              /\ ~WellFormed(doc)
              /\ doc = GoodPrefix(doc) \o parser.m_sv

\* the byte 0xFF after the opening quote of a string, the rest of the text
\* closing the string
C16_RejectedInsideString ==
    /\ doc = <<Ch.quote, 255, Ch.quote>>
    /\ o.exc = "UTF8Exception"
    /\ parser.m_sv = <<255, Ch.quote>>

\* C17: a String Value and an Object key are built from any bytes; the
\* compact and the pretty generation of a tree holding a string or a key that
\* is not valid UTF-8, at any place in the tree, fail with
\* BadEncodingException and give no text.
C17_LazyStringValidation ==
    /\ \A str \in TextSamples(IllFormedSamples) :
           /\ ValueString(str, NoPosition).m_type = "String"
           /\ ValueString(str, NoPosition).m_value = str
           /\ index(new_object, str).exc = "none"
    /\ docKind.src # "none" /\ ~AllWellFormed(json) =>
           docKind.src = "BadEncodingException" /\ doc = <<>>

\* the generation of an array that holds an object whose key ends with the
\* byte 0xFF has failed
C17_IllFormedKeyInside ==
    /\ json.m_type = "Array" /\ Len(json.m_value) = 1
    /\ json.m_value[1].m_type = "Object" /\ Len(json.m_value[1].m_value) = 1
    /\ json.m_value[1].m_value[1].key = <<Ch.a, 255>>
    /\ AllWellFormed(json.m_value[1].m_value[1].val)
    /\ docKind.src = "BadEncodingException"

\* no Double of the tree holds an infinity or a NaN
RECURSIVE AllDoublesFinite(_)
AllDoublesFinite(v) ==
    CASE v.m_type = "Double" -> v.m_value.cls = "fin"
      [] v.m_type = "Array" -> \A i \in DOMAIN v.m_value : AllDoublesFinite(v.m_value[i])
      [] v.m_type = "Object" -> \A i \in DOMAIN v.m_value : AllDoublesFinite(v.m_value[i].val)
      [] OTHER -> TRUE

\* C18: the construction of a Value from an infinity or a NaN fails with
\* BadValueException and leaves no Value; the construction from a finite
\* double, the largest and the smallest included, succeeds and stores it;
\* no Double built by a constructor or returned by the parser holds an
\* infinity or a NaN.
C18_NonFiniteRejected ==
    /\ cmp.op = "construct" =>
           IF cmp.arg.cls = "fin"
           THEN cmp.exc = "none" /\ json.m_type = "Double" /\ json.m_value = cmp.arg
           ELSE cmp.exc = "BadValueException" /\ json.m_type = "Null"
    /\ \A d \in DoubleSamples : ValueDouble(d, NoPosition).exc = "none"
    /\ AllDoublesFinite(json)
    /\ o.exc = "none" => AllDoublesFinite(o.val)
    /\ o.exc \notin {"unset", "none"} => o.exc # "BadValueException"

\* Value(+Infinity) has thrown
C18_InfinityRefused ==
    /\ cmp.op = "construct" /\ cmp.arg = DblInf(FALSE)
    /\ cmp.exc = "BadValueException"
    /\ json.m_type = "Null"

\* the bytes txt[i..j] that start a codepoint
CodepointsIn(txt, i, j) == Cardinality({k \in i..j : txt[k] < 128 \/ txt[k] >= 192})

\* line, column and offset of the codepoint that starts at byte k of txt:
\* lines and columns count from 1, the offset counts the codepoints before it
PositionOfByte(txt, k) ==
    With({j \in 1..(k - 1) : txt[j] = Ch.lf}, LAMBDA lfs :
         Position(1 + Cardinality(lfs),
                  1 + CodepointsIn(txt, 1 + (IF lfs = {} THEN 0
                                             ELSE CHOOSE j \in lfs : \A l \in lfs : l <= j),
                                   k - 1),
                  CodepointsIn(txt, 1, k - 1)))

\* the first index from k on that holds no whitespace
RECURSIVE NextNonWs(_, _)
NextNonWs(txt, k) ==
    IF k <= Len(txt) /\ IsWsByte(txt[k]) THEN NextNonWs(txt, k + 1) ELSE k

\* the first index from k on that holds the byte b
RECURSIVE NextByte(_, _, _)
NextByte(txt, k, b) ==
    IF k <= Len(txt) /\ txt[k] # b THEN NextByte(txt, k + 1, b) ELSE k

\* where the value of the first member of the object text opening at k starts
FirstMemberStart(txt, k) ==
    NextNonWs(txt,
        NextNonWs(txt, NextByte(txt, NextNonWs(txt, k + 1) + 1, Ch.quote) + 1) + 1)

\* v, whose text starts at byte k of doc, carries the position of that byte,
\* and so do the first element of an array and the member of an object
\* written with one member, all the way down
RECURSIVE PositionsFromStart(_, _)
PositionsFromStart(v, k) ==
    /\ v.m_position = PositionOfByte(doc, k)
    /\ v.m_type = "Array" /\ Len(v.m_value) > 0 =>
            PositionsFromStart(v.m_value[1], NextNonWs(doc, k + 1))
    /\ v.m_type = "Object" /\ docKind.src = "object" /\ Len(docKind.members) = 1 =>
            PositionsFromStart(v.m_value[1].val, FirstMemberStart(doc, k))

\* every Value of the tree carries the zeroed Position
RECURSIVE AllPositionsZero(_)
AllPositionsZero(v) ==
    /\ v.m_position = NoPosition
    /\ v.m_type = "Array" => \A i \in DOMAIN v.m_value : AllPositionsZero(v.m_value[i])
    /\ v.m_type = "Object" => \A i \in DOMAIN v.m_value : AllPositionsZero(v.m_value[i].val)

\* C19 (as stated): the Value returned by parse, the first element of each
\* array and the member of a one-member object in it carry the line, column
\* and offset of the first codepoint of their text; a Value built with the
\* constructors, before anything was parsed, carries Position (0, 0, 0)
\* throughout.
C19_RecordedPosition ==
    /\ o.exc = "none" =>
           PositionsFromStart(o.val, Len(doc) - Len(SignificantText(doc)) + 1)
    /\ parser.m_position = NoPosition => AllPositionsZero(json)

\* C20: whatever the Parser has parsed before, with whatever outcome, the
\* outcome of parse(doc) (the Value with its positions, or the exception with
\* its position) is that of Parser().parse(doc) on a new Parser given the
\* same maximum depth; the maximum depth stays as it was set.
C20_NoStateBetweenParses ==
    /\ o.exc # "unset" =>
           With(parse(doc, ParserConfig), LAMBDA fresh :
                /\ o.exc = fresh.exc
                /\ o.exc = "none" => o.val = fresh.val
                /\ o.exc # "none" => o.errpos = fresh.errpos)
    /\ cmp.op = "parsed" => parser.m_max_depth = cmp.m_max_depth

\* a text on the second line of its input was parsed after a parse that
\* stopped at an ill-formed byte
C20_ParsedAfterFailure ==
    /\ cmp.op = "parsed" /\ cmp.exc = "UTF8Exception"
    /\ doc = <<Ch.space, Ch.lf, Ch.quote, Ch.a, Ch.quote>>
    /\ o.exc = "none" /\ o.val.m_position = Position(2, 1, 2)

\* ---- C21
\* C21: right after Value b(a) or b = a, a == b and b == a hold and both
\* stand for the Value that was built; whenever one of the two, or a Value
\* inside it, is assigned to, appended to or given a member, the other one
\* stands for the same tree as before, all its descendants included.
C21_DeepCopyIndependence ==
    /\ cmp.op = "copy" =>
           /\ SameValue(Load(cmp.heap, cmp.a), Load(cmp.heap, cmp.b))
           /\ SameValue(Load(cmp.heap, cmp.b), Load(cmp.heap, cmp.a))
           /\ Identical(Load(cmp.heap, cmp.a), json)
           /\ Identical(Load(cmp.heap, cmp.b), json)
    /\ cmp.op = "mutated" =>
           Identical(Load(cmp.heap, IF cmp.side = "a" THEN cmp.b ELSE cmp.a), cmp.kept)

\* an element was appended to the array inside the copy of [[...]]; the
\* original still holds the shorter inner array
C21_InnerArrayOfCopyGrown ==
    /\ cmp.op = "mutated" /\ cmp.side = "b" /\ cmp.kind = "push_back" /\ cmp.path = <<1>>
    /\ json.m_type = "Array"
    /\ Len(Load(cmp.heap, cmp.b).m_value[1].m_value)
         = Len(Load(cmp.heap, cmp.a).m_value[1].m_value) + 1
    /\ Identical(Load(cmp.heap, cmp.a), json)

\* ---- C22
\* C22: every value m_depth held during a parse lies in 0 .. m_max_depth, and
\* m_depth is 0 before a parse and after it, whether parse returned a Value
\* or threw MalFormedException, UTF8Exception or MaximumDepthException from
\* any level of nesting.
C22_DepthCounter ==
    /\ parser.m_depth = 0
    /\ \A d \in parser.m_depth_seen : 0 <= d /\ d <= parser.m_max_depth

\* the read_value of an array's element met the ceiling: the counter went
\* up to 1 and is back at 0
C22_CeilingMetInsideArray ==
    /\ Len(doc) > 1 /\ doc[1] = Ch.lbracket
    /\ parser.m_max_depth = 1
    /\ o.exc = "MaximumDepthException"
    /\ parser.m_depth_seen = {0, 1}
    /\ parser.m_depth = 0

\* ---- C23
\* the levels the values written in txt need: each value needs one more
\* than it has containers around it.  The bytes are scanned from the i-th
\* on, open counting the containers open there, inside telling whether
\* a string is being scanned, most being the levels needed so far.
RECURSIVE LevelsFrom(_, _, _, _, _)
LevelsFrom(txt, i, open, inside, most) ==
    IF i > Len(txt) THEN most
    ELSE IF inside
    THEN (IF txt[i] = Ch.backslash THEN LevelsFrom(txt, i + 2, open, TRUE, most)
          ELSE LevelsFrom(txt, i + 1, open, txt[i] # Ch.quote, most))
    ELSE IF txt[i] \in {Ch.rbracket, Ch.rbrace}
    THEN LevelsFrom(txt, i + 1, open - 1, FALSE, most)
    ELSE IF IsWsByte(txt[i]) \/ txt[i] \in {Ch.comma, Ch.colon}
    THEN LevelsFrom(txt, i + 1, open, FALSE, most)
    ELSE LevelsFrom(txt, i + 1,
                    IF txt[i] \in {Ch.lbracket, Ch.lbrace} THEN open + 1 ELSE open,
                    txt[i] = Ch.quote,
                    IF open + 1 > most THEN open + 1 ELSE most)

Levels(txt) == LevelsFrom(txt, 1, 0, FALSE, 0)

\* a document that parses under the default maximum depth parses under the
\* maximum depth N exactly when no value in it has N or more containers
\* around it, and fails with MaximumDepthException otherwise
DepthDecides ==
    With(parse(doc, [ParserConfig EXCEPT !.m_max_depth = DefaultMaxDepth]), LAMBDA ref :
         ref.exc = "none" =>
             /\ o.exc = "none" <=> Levels(doc) <= parser.m_max_depth
             /\ o.exc # "none" => o.exc = "MaximumDepthException")

\* C23 (as stated): every value read takes one level, scalars, elements and
\* member values included, keys excluded; with maximum depth 0 every input
\* fails with MaximumDepthException.
C23_WhatCountsTowardDepth ==
    o.exc # "unset" =>
        /\ DepthDecides
        /\ parser.m_max_depth = 0 => o.exc = "MaximumDepthException"

\* C23 (amended): every value read takes one level, scalars, elements and
\* member values included, keys excluded; with maximum depth 0 every input
\* fails after the optional BOM and the leading whitespace were consumed and
\* before any codepoint of a value is: with UTF8Exception when the bytes
\* that follow them do not start with a well-formed UTF-8 sequence, with
\* MaximumDepthException otherwise (also when nothing follows).
C23_DepthOfValues ==
    o.exc # "unset" =>
        /\ DepthDecides
        /\ parser.m_max_depth = 0 =>
               IF SignificantText(doc) = <<>> \/ decode_one_utf8(SignificantText(doc)).ok
               THEN o.exc = "MaximumDepthException" /\ parser.m_sv = SignificantText(doc)
               ELSE o.exc = "UTF8Exception"

\* [1] with maximum depth 1: the scalar inside one array is refused
C23_ScalarInsideArrayRefused ==
    /\ doc = <<Ch.lbracket, Ch.d1, Ch.rbracket>>
    /\ parser.m_max_depth = 1
    /\ o.exc = "MaximumDepthException"

\* ---- C24
\* C24 (as stated): when a text goes wrong at one codepoint (inside a
\* literal, where a separator, a key or a value is due, after a backslash,
\* inside a \u escape, at a control character inside a string, inside a
\* number), parse fails with MalFormedException and the exception carries
\* the position of that codepoint.
C24_ErrorPositions ==
    (o.exc # "unset" /\ "at" \in DOMAIN docKind) =>
        /\ o.exc = "MalFormedException"
        /\ o.errpos = PositionOfByte(doc, docKind.at)

\* ---- C25
\* the bytes of doc the parser has consumed
Consumed == SubSeq(doc, 1, Len(doc) - Len(parser.m_sv))

\* the last index of txt that holds a line feed, 0 if none does
RECURSIVE LastLF(_, _)
LastLF(txt, k) == IF k = 0 \/ txt[k] = Ch.lf THEN k ELSE LastLF(txt, k - 1)

\* C25 (as stated): when parse has returned or thrown, the Parser's position
\* has line 1 + the line feeds consumed, column 1 + the codepoints consumed
\* since the last line feed, and offset the number of bytes consumed.
C25_PositionBookkeeping ==
    o.exc # "unset" =>
        parser.m_position =
            Position(1 + CountByte(Consumed, Ch.lf),
                     1 + CodepointsIn(Consumed, LastLF(Consumed, Len(Consumed)) + 1,
                                      Len(Consumed)),
                     Len(Consumed))

\* ---- C26
\* the first index from i on that holds no digit
RECURSIVE SkipDigits(_, _)
SkipDigits(t, i) == IF i <= Len(t) /\ IsDigit(t[i]) THEN SkipDigits(t, i + 1) ELSE i

\* where the integer part, the optional fraction and the optional exponent
\* of the JSON number grammar end when they start at i; 0 when t has none there
AfterInt(t, i) ==
    IF i > Len(t) \/ ~IsDigit(t[i]) THEN 0
    ELSE IF t[i] = Ch.d0 THEN i + 1 ELSE SkipDigits(t, i + 1)
AfterFrac(t, i) ==
    IF i = 0 \/ i > Len(t) \/ t[i] # Ch.dot THEN i
    ELSE IF i + 1 <= Len(t) /\ IsDigit(t[i + 1]) THEN SkipDigits(t, i + 2) ELSE 0
AfterSign(t, i) == IF i <= Len(t) /\ t[i] \in {Ch.plus, Ch.minus} THEN i + 1 ELSE i
AfterExp(t, i) ==
    IF i = 0 \/ i > Len(t) \/ t[i] \notin {Ch.e, Ch.E} THEN i
    ELSE IF AfterSign(t, i + 1) <= Len(t) /\ IsDigit(t[AfterSign(t, i + 1)])
    THEN SkipDigits(t, AfterSign(t, i + 1) + 1) ELSE 0

\* t is a number of the JSON grammar
IsJsonNumber(t) ==
    /\ t # <<>>
    /\ AfterExp(t, AfterFrac(t, AfterInt(t, IF t[1] = Ch.minus THEN 2 ELSE 1))) = Len(t) + 1

HasFractionOrExponent(t) == \E i \in DOMAIN t : t[i] \in {Ch.dot, Ch.e, Ch.E}

\* the C library converts the number t without a range error
Converts(t) ==
    IF HasFractionOrExponent(t) THEN strtod(t, libc.erange_on_subnormal).errno = "0"
    ELSE IF t[1] = Ch.minus THEN strtoll(t).errno = "0"
    ELSE strtoull(t).errno = "0"

\* the text written where the number belongs, and the Value read for it
WrittenNumber == IF doc[1] = Ch.lbracket THEN SubSeq(doc, 2, Len(doc) - 1) ELSE doc
ReadNumber == IF doc[1] = Ch.lbracket THEN o.val.m_value[1] ELSE o.val

\* C26: a text that is no number of the JSON grammar (a leading zero before a
\* digit, a lone '-', a leading '+' or '.', a '.' or an exponent without a
\* digit) makes parse fail with MalFormedException; a text that is one is
\* read as a number whenever the C library converts it, as an Int64 or UInt64
\* when it has neither fraction nor exponent and as a Double when it has
\* one, and fails with MalFormedException when the conversion fails.
C26_NumberGrammar ==
    (docKind.src = "typed" /\ o.exc # "unset") =>
        IF IsJsonNumber(WrittenNumber) /\ Converts(WrittenNumber)
        THEN /\ o.exc = "none"
             /\ ReadNumber.m_type =
                    IF HasFractionOrExponent(WrittenNumber) THEN "Double"
                    ELSE IF WrittenNumber[1] = Ch.minus THEN "Int64" ELSE "UInt64"
        ELSE o.exc = "MalFormedException"

\* -012 was refused
C26_LeadingZeroRefused ==
    /\ doc = <<Ch.minus, Ch.d0, Ch.d1, Ch.d0 + 2>>
    /\ o.exc = "MalFormedException"

\* ---- C27
\* C27: an integer written in decimal digits with a '-' in front parses to an
\* Int64 of exactly its value when the value is in [INT64_MIN, 0], without
\* one to a UInt64 of exactly its value when the value is in
\* [0, UINT64_MAX]; outside these ranges parse fails with MalFormedException.
C27_IntegerRange ==
    (o.exc # "unset" /\ "magnitude" \in DOMAIN docKind) =>
        IF docKind.neg /\ 0 - docKind.magnitude >= INT64_MIN
        THEN /\ o.exc = "none"
             /\ ReadNumber.m_type = "Int64"
             /\ ReadNumber.m_value = 0 - docKind.magnitude
        ELSE IF ~docKind.neg /\ docKind.magnitude <= UINT64_MAX
        THEN /\ o.exc = "none"
             /\ ReadNumber.m_type = "UInt64"
             /\ ReadNumber.m_value = docKind.magnitude
        ELSE o.exc = "MalFormedException"

\* the integer one below INT64_MIN was refused
C27_BelowInt64Refused ==
    /\ "magnitude" \in DOMAIN docKind
    /\ docKind.neg /\ 0 - docKind.magnitude = INT64_MIN - 1
    /\ o.exc = "MalFormedException"

\* ---- C28
\* the value of the four hexadecimal digits of txt from i on
HexAt(txt, i) ==
    read_hexa(txt[i]) * 4096 + read_hexa(txt[i + 1]) * 256
        + read_hexa(txt[i + 2]) * 16 + read_hexa(txt[i + 3])

\* the codepoint a well-formed sequence of four bytes stands for
ScalarOfFour(b) == (b[1] - 240) * 262144 + (b[2] - 128) * 4096 + (b[3] - 128) * 64 + (b[4] - 128)

\* json is a String of one codepoint past U+FFFF and doc is its compact text
SupplementaryWritten ==
    /\ docKind.src = "compact" /\ json.m_type = "String"
    /\ Len(json.m_value) = 4 /\ json.m_value[1] >= 240

\* C28: the text generated for a String of one codepoint c past U+FFFF is a
\* quoted pair of \u escapes, the first of a value in [0xD800, 0xDBFF], the
\* second of a value in [0xDC00, 0xDFFF], which combine to c; parse reads it
\* as the String holding c, and the text generated for that String is the
\* same twelve characters again.
C28_SurrogatePairRoundTrip ==
    SupplementaryWritten =>
        /\ Len(doc) = 14 /\ doc[1] = Ch.quote /\ doc[14] = Ch.quote
        /\ SubSeq(doc, 2, 3) = <<Ch.backslash, Ch.u>>
        /\ SubSeq(doc, 8, 9) = <<Ch.backslash, Ch.u>>
        /\ \A i \in (4..7) \cup (10..13) : is_valid_hexa(doc[i])
        /\ HexAt(doc, 4) >= 55296 /\ HexAt(doc, 4) <= 56319
        /\ HexAt(doc, 10) >= 56320 /\ HexAt(doc, 10) <= 57343
        /\ 65536 + (HexAt(doc, 4) - 55296) * 1024 + (HexAt(doc, 10) - 56320)
               = ScalarOfFour(json.m_value)
        /\ o.exc # "unset" =>
               /\ o.exc = "none"
               /\ o.val.m_type = "String"
               /\ o.val.m_value = json.m_value
               /\ escape_string(o.val.m_value) = GenOk(doc)

\* \uD83D\uDE00 was generated for U+1F600 and read back
C28_GrinningFaceReadBack ==
    /\ SupplementaryWritten
    /\ ScalarOfFour(json.m_value) = 128512
    /\ HexAt(doc, 4) = 55357 /\ HexAt(doc, 10) = 56832
    /\ o.exc = "none" /\ o.val.m_value = json.m_value

\* ---- C29
\* the bytes of the string the units us stand for; ok is FALSE when a first
\* half is not followed at once by a second half, when a second half follows
\* no first half, and when an escape is short of four hexadecimal digits
RECURSIVE UnitsMeaning(_)
UnitsMeaning(us) ==
    IF us = <<>> THEN [ok |-> TRUE, str |-> <<>>]
    ELSE IF us[1].k = "high"
    THEN IF Len(us) >= 2 /\ us[2].k = "low"
         THEN With(UnitsMeaning(SubSeq(us, 3, Len(us))), LAMBDA r :
                  [ok |-> r.ok,
                   str |-> encode_utf8(65536 + (us[1].v - 55296) * 1024 + (us[2].v - 56320))
                               \o r.str])
         ELSE [ok |-> FALSE, str |-> <<>>]
    ELSE IF us[1].k \in {"low", "wrong"} THEN [ok |-> FALSE, str |-> <<>>]
    ELSE With(UnitsMeaning(Tail(us)), LAMBDA r :
             [ok |-> r.ok, str |-> encode_utf8(us[1].v) \o r.str])

\* str holds the three bytes of a codepoint in [0xD800, 0xDFFF]
HoldsSurrogate(str) == \E i \in 1..(Len(str) - 1) : str[i] = 237 /\ str[i + 1] >= 160

\* C29: a string in which a \u escape of a first half is not followed at
\* once by a \u escape of a second half, or a \u escape of a second half
\* follows no first half, makes parse fail with MalFormedException; a string
\* in which every first half is paired is read with each pair as one
\* codepoint; no String read from escapes holds a codepoint in
\* [0xD800, 0xDFFF].
C29_MalformedSurrogates ==
    (o.exc # "unset" /\ "units" \in DOMAIN docKind) =>
        IF UnitsMeaning(docKind.units).ok
        THEN /\ o.exc = "none"
             /\ o.val.m_type = "String"
             /\ o.val.m_value = UnitsMeaning(docKind.units).str
             /\ ~HoldsSurrogate(o.val.m_value)
        ELSE o.exc = "MalFormedException"

\* a string such as "\uD83D\uD83D\uDE00" was refused: the first escape is followed by another
\* first half
C29_HighAfterHighRefused ==
    /\ "units" \in DOMAIN docKind
    /\ Len(docKind.units) = 3
    /\ docKind.units[1].k = "high" /\ docKind.units[2].k = "high"
    /\ docKind.units[3].k = "low"
    /\ o.exc = "MalFormedException"

\* ---- C30
\* C30 (as stated): a == a; a == b implies b == a; a == b and b == c imply
\* a == c; a != b is the negation of a == b.
C30_EqualityIsEquivalence ==
    cmp.op = "three" =>
        /\ cmp.aa
        /\ cmp.ab <=> cmp.ba
        /\ (cmp.ab /\ cmp.bc) => cmp.ac
        /\ cmp.ne <=> ~cmp.ab

====
